---- MODULE Spec2Model ----
(***************************************************************************)
(* A model of ton_semantic_decoder.py (class TonDecoder) and of the call   *)
(* of TonDecoder.parse_ton_link in its demo, example.py.                   *)
(*                                                                         *)
(* Text is a sequence of characters.  A character is a TLA+ string: the    *)
(* character itself for printable ASCII (32..126, but the grave accent),   *)
(* "U+" followed by the hexadecimal code point for every other character   *)
(* ("U+000A" is a line feed).  Bytes are integers 0..255.  Natural numbers  *)
(* of any size (decimal coefficients, float significands) are              *)
(* little-endian sequences of limbs in base 2^24.                          *)
(***************************************************************************)
EXTENDS Integers, Sequences, FiniteSets, TLC

VARIABLES
    pc,          \* "call": the arguments are chosen; "return": the call has returned
    op,          \* the entry point called
    b64_str,     \* decode_base64_comment: its argument
    decoded,     \* decode_base64_comment: the outcome of the call
    event_data,  \* parse_event: its first argument
    my_wallet,   \* parse_event: its second argument
    result,      \* parse_event: the outcome of the call
    raw_uri,     \* parse_ton_link: its argument
    link_data    \* parse_ton_link: the outcome of the call

vars == <<pc, op, b64_str, decoded, event_data, my_wallet, result, raw_uri, link_data>>

----------------------------------------------------------------------------
(* Characters and text                                                     *)

\* The text of a string literal, one character per element.
Str(s) == [i \in 1..Len(s) |-> SubSeq(s, i, i)]

\* The printable ASCII characters in code order: codes 32..95 and 97..126 (a
\* string of the language cannot hold the grave accent, code 96, which is
\* written "U+0060" like the characters outside printable ASCII).
AsciiLow == " !\"#$%&'()*+,-./0123456789:;<=>?@ABCDEFGHIJKLMNOPQRSTUVWXYZ[\\]^_"

AsciiHigh == "abcdefghijklmnopqrstuvwxyz{|}~"

HexDigits == "0123456789ABCDEF"

IndexIn(table, c) == CHOOSE i \in 1..Len(table) : SubSeq(table, i, i) = c

CharsOf(table) == {SubSeq(table, i, i) : i \in 1..Len(table)}

AsciiOrd == [c \in CharsOf(AsciiLow) \cup CharsOf(AsciiHigh) |->
                IF c \in CharsOf(AsciiLow) THEN 31 + IndexIn(AsciiLow, c)
                ELSE 96 + IndexIn(AsciiHigh, c)]

HexOrd == [c \in CharsOf(HexDigits) |-> IndexIn(HexDigits, c) - 1]

RECURSIVE HexVal(_, _)
HexVal(h, acc) == IF Len(h) = 0 THEN acc
                  ELSE HexVal(SubSeq(h, 2, Len(h)), 16 * acc + HexOrd[SubSeq(h, 1, 1)])

RECURSIVE Hex(_, _)
Hex(n, width) == IF n = 0 /\ width <= 0 THEN ""
                 ELSE Hex(n \div 16, width - 1) \o SubSeq(HexDigits, (n % 16) + 1, (n % 16) + 1)

\* ord() and chr() of Python.
Ord(c) == IF Len(c) = 1 THEN AsciiOrd[c] ELSE HexVal(SubSeq(c, 3, Len(c)), 0)

Chr(n) == IF n \in 32..95 THEN SubSeq(AsciiLow, n - 31, n - 31)
          ELSE IF n \in 97..126 THEN SubSeq(AsciiHigh, n - 96, n - 96)
          ELSE "U+" \o Hex(n, 4)

\* The code point ranges str.isprintable() rejects (Unicode 14, categories
\* Cc, Cf, Cs, Co, Cn, Zl, Zp and Zs other than the space).
NonPrintable == <<
    <<0,31>>, <<127,160>>, <<173,173>>, <<888,889>>, <<896,899>>, <<907,907>>, <<909,909>>,
    <<930,930>>, <<1328,1328>>, <<1367,1368>>, <<1419,1420>>, <<1424,1424>>, <<1480,1487>>,
    <<1515,1518>>, <<1525,1541>>, <<1564,1564>>, <<1757,1757>>, <<1806,1807>>, <<1867,1868>>,
    <<1970,1983>>, <<2043,2044>>, <<2094,2095>>, <<2111,2111>>, <<2140,2141>>, <<2143,2143>>,
    <<2155,2159>>, <<2191,2199>>, <<2274,2274>>, <<2436,2436>>, <<2445,2446>>, <<2449,2450>>,
    <<2473,2473>>, <<2481,2481>>, <<2483,2485>>, <<2490,2491>>, <<2501,2502>>, <<2505,2506>>,
    <<2511,2518>>, <<2520,2523>>, <<2526,2526>>, <<2532,2533>>, <<2559,2560>>, <<2564,2564>>,
    <<2571,2574>>, <<2577,2578>>, <<2601,2601>>, <<2609,2609>>, <<2612,2612>>, <<2615,2615>>,
    <<2618,2619>>, <<2621,2621>>, <<2627,2630>>, <<2633,2634>>, <<2638,2640>>, <<2642,2648>>,
    <<2653,2653>>, <<2655,2661>>, <<2679,2688>>, <<2692,2692>>, <<2702,2702>>, <<2706,2706>>,
    <<2729,2729>>, <<2737,2737>>, <<2740,2740>>, <<2746,2747>>, <<2758,2758>>, <<2762,2762>>,
    <<2766,2767>>, <<2769,2783>>, <<2788,2789>>, <<2802,2808>>, <<2816,2816>>, <<2820,2820>>,
    <<2829,2830>>, <<2833,2834>>, <<2857,2857>>, <<2865,2865>>, <<2868,2868>>, <<2874,2875>>,
    <<2885,2886>>, <<2889,2890>>, <<2894,2900>>, <<2904,2907>>, <<2910,2910>>, <<2916,2917>>,
    <<2936,2945>>, <<2948,2948>>, <<2955,2957>>, <<2961,2961>>, <<2966,2968>>, <<2971,2971>>,
    <<2973,2973>>, <<2976,2978>>, <<2981,2983>>, <<2987,2989>>, <<3002,3005>>, <<3011,3013>>,
    <<3017,3017>>, <<3022,3023>>, <<3025,3030>>, <<3032,3045>>, <<3067,3071>>, <<3085,3085>>,
    <<3089,3089>>, <<3113,3113>>, <<3130,3131>>, <<3141,3141>>, <<3145,3145>>, <<3150,3156>>,
    <<3159,3159>>, <<3163,3164>>, <<3166,3167>>, <<3172,3173>>, <<3184,3190>>, <<3213,3213>>,
    <<3217,3217>>, <<3241,3241>>, <<3252,3252>>, <<3258,3259>>, <<3269,3269>>, <<3273,3273>>,
    <<3278,3284>>, <<3287,3292>>, <<3295,3295>>, <<3300,3301>>, <<3312,3312>>, <<3315,3327>>,
    <<3341,3341>>, <<3345,3345>>, <<3397,3397>>, <<3401,3401>>, <<3408,3411>>, <<3428,3429>>,
    <<3456,3456>>, <<3460,3460>>, <<3479,3481>>, <<3506,3506>>, <<3516,3516>>, <<3518,3519>>,
    <<3527,3529>>, <<3531,3534>>, <<3541,3541>>, <<3543,3543>>, <<3552,3557>>, <<3568,3569>>,
    <<3573,3584>>, <<3643,3646>>, <<3676,3712>>, <<3715,3715>>, <<3717,3717>>, <<3723,3723>>,
    <<3748,3748>>, <<3750,3750>>, <<3774,3775>>, <<3781,3781>>, <<3783,3783>>, <<3790,3791>>,
    <<3802,3803>>, <<3808,3839>>, <<3912,3912>>, <<3949,3952>>, <<3992,3992>>, <<4029,4029>>,
    <<4045,4045>>, <<4059,4095>>, <<4294,4294>>, <<4296,4300>>, <<4302,4303>>, <<4681,4681>>,
    <<4686,4687>>, <<4695,4695>>, <<4697,4697>>, <<4702,4703>>, <<4745,4745>>, <<4750,4751>>,
    <<4785,4785>>, <<4790,4791>>, <<4799,4799>>, <<4801,4801>>, <<4806,4807>>, <<4823,4823>>,
    <<4881,4881>>, <<4886,4887>>, <<4955,4956>>, <<4989,4991>>, <<5018,5023>>, <<5110,5111>>,
    <<5118,5119>>, <<5760,5760>>, <<5789,5791>>, <<5881,5887>>, <<5910,5918>>, <<5943,5951>>,
    <<5972,5983>>, <<5997,5997>>, <<6001,6001>>, <<6004,6015>>, <<6110,6111>>, <<6122,6127>>,
    <<6138,6143>>, <<6158,6158>>, <<6170,6175>>, <<6265,6271>>, <<6315,6319>>, <<6390,6399>>,
    <<6431,6431>>, <<6444,6447>>, <<6460,6463>>, <<6465,6467>>, <<6510,6511>>, <<6517,6527>>,
    <<6572,6575>>, <<6602,6607>>, <<6619,6621>>, <<6684,6685>>, <<6751,6751>>, <<6781,6782>>,
    <<6794,6799>>, <<6810,6815>>, <<6830,6831>>, <<6863,6911>>, <<6989,6991>>, <<7039,7039>>,
    <<7156,7163>>, <<7224,7226>>, <<7242,7244>>, <<7305,7311>>, <<7355,7356>>, <<7368,7375>>,
    <<7419,7423>>, <<7958,7959>>, <<7966,7967>>, <<8006,8007>>, <<8014,8015>>, <<8024,8024>>,
    <<8026,8026>>, <<8028,8028>>, <<8030,8030>>, <<8062,8063>>, <<8117,8117>>, <<8133,8133>>,
    <<8148,8149>>, <<8156,8156>>, <<8176,8177>>, <<8181,8181>>, <<8191,8207>>, <<8232,8239>>,
    <<8287,8303>>, <<8306,8307>>, <<8335,8335>>, <<8349,8351>>, <<8385,8399>>, <<8433,8447>>,
    <<8588,8591>>, <<9255,9279>>, <<9291,9311>>, <<11124,11125>>, <<11158,11158>>, <<11508,11512>>,
    <<11558,11558>>, <<11560,11564>>, <<11566,11567>>, <<11624,11630>>, <<11633,11646>>,
    <<11671,11679>>, <<11687,11687>>, <<11695,11695>>, <<11703,11703>>, <<11711,11711>>,
    <<11719,11719>>, <<11727,11727>>, <<11735,11735>>, <<11743,11743>>, <<11870,11903>>,
    <<11930,11930>>, <<12020,12031>>, <<12246,12271>>, <<12284,12288>>, <<12352,12352>>,
    <<12439,12440>>, <<12544,12548>>, <<12592,12592>>, <<12687,12687>>, <<12772,12783>>,
    <<12831,12831>>, <<42125,42127>>, <<42183,42191>>, <<42540,42559>>, <<42744,42751>>,
    <<42955,42959>>, <<42962,42962>>, <<42964,42964>>, <<42970,42993>>, <<43053,43055>>,
    <<43066,43071>>, <<43128,43135>>, <<43206,43213>>, <<43226,43231>>, <<43348,43358>>,
    <<43389,43391>>, <<43470,43470>>, <<43482,43485>>, <<43519,43519>>, <<43575,43583>>,
    <<43598,43599>>, <<43610,43611>>, <<43715,43738>>, <<43767,43776>>, <<43783,43784>>,
    <<43791,43792>>, <<43799,43807>>, <<43815,43815>>, <<43823,43823>>, <<43884,43887>>,
    <<44014,44015>>, <<44026,44031>>, <<55204,55215>>, <<55239,55242>>, <<55292,63743>>,
    <<64110,64111>>, <<64218,64255>>, <<64263,64274>>, <<64280,64284>>, <<64311,64311>>,
    <<64317,64317>>, <<64319,64319>>, <<64322,64322>>, <<64325,64325>>, <<64451,64466>>,
    <<64912,64913>>, <<64968,64974>>, <<64976,65007>>, <<65050,65055>>, <<65107,65107>>,
    <<65127,65127>>, <<65132,65135>>, <<65141,65141>>, <<65277,65280>>, <<65471,65473>>,
    <<65480,65481>>, <<65488,65489>>, <<65496,65497>>, <<65501,65503>>, <<65511,65511>>,
    <<65519,65531>>, <<65534,65535>>, <<65548,65548>>, <<65575,65575>>, <<65595,65595>>,
    <<65598,65598>>, <<65614,65615>>, <<65630,65663>>, <<65787,65791>>, <<65795,65798>>,
    <<65844,65846>>, <<65935,65935>>, <<65949,65951>>, <<65953,65999>>, <<66046,66175>>,
    <<66205,66207>>, <<66257,66271>>, <<66300,66303>>, <<66340,66348>>, <<66379,66383>>,
    <<66427,66431>>, <<66462,66462>>, <<66500,66503>>, <<66518,66559>>, <<66718,66719>>,
    <<66730,66735>>, <<66772,66775>>, <<66812,66815>>, <<66856,66863>>, <<66916,66926>>,
    <<66939,66939>>, <<66955,66955>>, <<66963,66963>>, <<66966,66966>>, <<66978,66978>>,
    <<66994,66994>>, <<67002,67002>>, <<67005,67071>>, <<67383,67391>>, <<67414,67423>>,
    <<67432,67455>>, <<67462,67462>>, <<67505,67505>>, <<67515,67583>>, <<67590,67591>>,
    <<67593,67593>>, <<67638,67638>>, <<67641,67643>>, <<67645,67646>>, <<67670,67670>>,
    <<67743,67750>>, <<67760,67807>>, <<67827,67827>>, <<67830,67834>>, <<67868,67870>>,
    <<67898,67902>>, <<67904,67967>>, <<68024,68027>>, <<68048,68049>>, <<68100,68100>>,
    <<68103,68107>>, <<68116,68116>>, <<68120,68120>>, <<68150,68151>>, <<68155,68158>>,
    <<68169,68175>>, <<68185,68191>>, <<68256,68287>>, <<68327,68330>>, <<68343,68351>>,
    <<68406,68408>>, <<68438,68439>>, <<68467,68471>>, <<68498,68504>>, <<68509,68520>>,
    <<68528,68607>>, <<68681,68735>>, <<68787,68799>>, <<68851,68857>>, <<68904,68911>>,
    <<68922,69215>>, <<69247,69247>>, <<69290,69290>>, <<69294,69295>>, <<69298,69375>>,
    <<69416,69423>>, <<69466,69487>>, <<69514,69551>>, <<69580,69599>>, <<69623,69631>>,
    <<69710,69713>>, <<69750,69758>>, <<69821,69821>>, <<69827,69839>>, <<69865,69871>>,
    <<69882,69887>>, <<69941,69941>>, <<69960,69967>>, <<70007,70015>>, <<70112,70112>>,
    <<70133,70143>>, <<70162,70162>>, <<70207,70271>>, <<70279,70279>>, <<70281,70281>>,
    <<70286,70286>>, <<70302,70302>>, <<70314,70319>>, <<70379,70383>>, <<70394,70399>>,
    <<70404,70404>>, <<70413,70414>>, <<70417,70418>>, <<70441,70441>>, <<70449,70449>>,
    <<70452,70452>>, <<70458,70458>>, <<70469,70470>>, <<70473,70474>>, <<70478,70479>>,
    <<70481,70486>>, <<70488,70492>>, <<70500,70501>>, <<70509,70511>>, <<70517,70655>>,
    <<70748,70748>>, <<70754,70783>>, <<70856,70863>>, <<70874,71039>>, <<71094,71095>>,
    <<71134,71167>>, <<71237,71247>>, <<71258,71263>>, <<71277,71295>>, <<71354,71359>>,
    <<71370,71423>>, <<71451,71452>>, <<71468,71471>>, <<71495,71679>>, <<71740,71839>>,
    <<71923,71934>>, <<71943,71944>>, <<71946,71947>>, <<71956,71956>>, <<71959,71959>>,
    <<71990,71990>>, <<71993,71994>>, <<72007,72015>>, <<72026,72095>>, <<72104,72105>>,
    <<72152,72153>>, <<72165,72191>>, <<72264,72271>>, <<72355,72367>>, <<72441,72703>>,
    <<72713,72713>>, <<72759,72759>>, <<72774,72783>>, <<72813,72815>>, <<72848,72849>>,
    <<72872,72872>>, <<72887,72959>>, <<72967,72967>>, <<72970,72970>>, <<73015,73017>>,
    <<73019,73019>>, <<73022,73022>>, <<73032,73039>>, <<73050,73055>>, <<73062,73062>>,
    <<73065,73065>>, <<73103,73103>>, <<73106,73106>>, <<73113,73119>>, <<73130,73439>>,
    <<73465,73647>>, <<73649,73663>>, <<73714,73726>>, <<74650,74751>>, <<74863,74863>>,
    <<74869,74879>>, <<75076,77711>>, <<77811,77823>>, <<78895,82943>>, <<83527,92159>>,
    <<92729,92735>>, <<92767,92767>>, <<92778,92781>>, <<92863,92863>>, <<92874,92879>>,
    <<92910,92911>>, <<92918,92927>>, <<92998,93007>>, <<93018,93018>>, <<93026,93026>>,
    <<93048,93052>>, <<93072,93759>>, <<93851,93951>>, <<94027,94030>>, <<94088,94094>>,
    <<94112,94175>>, <<94181,94191>>, <<94194,94207>>, <<100344,100351>>, <<101590,101631>>,
    <<101641,110575>>, <<110580,110580>>, <<110588,110588>>, <<110591,110591>>, <<110883,110927>>,
    <<110931,110947>>, <<110952,110959>>, <<111356,113663>>, <<113771,113775>>, <<113789,113791>>,
    <<113801,113807>>, <<113818,113819>>, <<113824,118527>>, <<118574,118575>>, <<118599,118607>>,
    <<118724,118783>>, <<119030,119039>>, <<119079,119080>>, <<119155,119162>>, <<119275,119295>>,
    <<119366,119519>>, <<119540,119551>>, <<119639,119647>>, <<119673,119807>>, <<119893,119893>>,
    <<119965,119965>>, <<119968,119969>>, <<119971,119972>>, <<119975,119976>>, <<119981,119981>>,
    <<119994,119994>>, <<119996,119996>>, <<120004,120004>>, <<120070,120070>>, <<120075,120076>>,
    <<120085,120085>>, <<120093,120093>>, <<120122,120122>>, <<120127,120127>>, <<120133,120133>>,
    <<120135,120137>>, <<120145,120145>>, <<120486,120487>>, <<120780,120781>>, <<121484,121498>>,
    <<121504,121504>>, <<121520,122623>>, <<122655,122879>>, <<122887,122887>>, <<122905,122906>>,
    <<122914,122914>>, <<122917,122917>>, <<122923,123135>>, <<123181,123183>>, <<123198,123199>>,
    <<123210,123213>>, <<123216,123535>>, <<123567,123583>>, <<123642,123646>>, <<123648,124895>>,
    <<124903,124903>>, <<124908,124908>>, <<124911,124911>>, <<124927,124927>>, <<125125,125126>>,
    <<125143,125183>>, <<125260,125263>>, <<125274,125277>>, <<125280,126064>>, <<126133,126208>>,
    <<126270,126463>>, <<126468,126468>>, <<126496,126496>>, <<126499,126499>>, <<126501,126502>>,
    <<126504,126504>>, <<126515,126515>>, <<126520,126520>>, <<126522,126522>>, <<126524,126529>>,
    <<126531,126534>>, <<126536,126536>>, <<126538,126538>>, <<126540,126540>>, <<126544,126544>>,
    <<126547,126547>>, <<126549,126550>>, <<126552,126552>>, <<126554,126554>>, <<126556,126556>>,
    <<126558,126558>>, <<126560,126560>>, <<126563,126563>>, <<126565,126566>>, <<126571,126571>>,
    <<126579,126579>>, <<126584,126584>>, <<126589,126589>>, <<126591,126591>>, <<126602,126602>>,
    <<126620,126624>>, <<126628,126628>>, <<126634,126634>>, <<126652,126703>>, <<126706,126975>>,
    <<127020,127023>>, <<127124,127135>>, <<127151,127152>>, <<127168,127168>>, <<127184,127184>>,
    <<127222,127231>>, <<127406,127461>>, <<127491,127503>>, <<127548,127551>>, <<127561,127567>>,
    <<127570,127583>>, <<127590,127743>>, <<128728,128732>>, <<128749,128751>>, <<128765,128767>>,
    <<128884,128895>>, <<128985,128991>>, <<129004,129007>>, <<129009,129023>>, <<129036,129039>>,
    <<129096,129103>>, <<129114,129119>>, <<129160,129167>>, <<129198,129199>>, <<129202,129279>>,
    <<129620,129631>>, <<129646,129647>>, <<129653,129655>>, <<129661,129663>>, <<129671,129679>>,
    <<129709,129711>>, <<129723,129727>>, <<129734,129743>>, <<129754,129759>>, <<129768,129775>>,
    <<129783,129791>>, <<129939,129939>>, <<129995,130031>>, <<130042,131071>>, <<173792,173823>>,
    <<177977,177983>>, <<178206,178207>>, <<183970,183983>>, <<191457,194559>>, <<195102,196607>>,
    <<201547,917759>>, <<918000,1114111>>>>

isprintable(c) == Len(c) = 1 \/ LET n == Ord(c) IN
                    ~ \E r \in 1..Len(NonPrintable) : NonPrintable[r][1] <= n /\ n <= NonPrintable[r][2]

\* The characters str.strip() removes (str.isspace()).
isspace(c) == IF Len(c) = 1 THEN c = " " ELSE
                Ord(c) \in (9..13) \cup (28..31) \cup {133, 160, 5760} \cup (8192..8202)
                           \cup {8232, 8233, 8239, 8287, 12288}

\* The text from the first to the last of the indices kept.
Trim(text, keep) ==
    IF keep = {} THEN <<>>
    ELSE SubSeq(text, CHOOSE i \in keep : \A j \in keep : i <= j,
                      CHOOSE i \in keep : \A j \in keep : j <= i)

\* str.strip(): the text without its leading and trailing whitespace.
strip(text) == Trim(text, {i \in 1..Len(text) : ~isspace(text[i])})

\* "".join(ch for ch in text if ch.isprintable())
printable(text) == SelectSeq(text, isprintable)

\* Whether old occurs in text at index i.
OccursAt(text, old, i) ==
    /\ i >= 1 /\ i + Len(old) - 1 <= Len(text)
    /\ \A k \in 1..Len(old) : text[i + k - 1] = old[k]

\* old in text (Python's substring test).
Contains(text, old) == \E i \in 1..(Len(text) - Len(old) + 1) : OccursAt(text, old, i)

\* The concatenation of pieces[lo..hi].
RECURSIVE Concat(_, _, _)
Concat(pieces, lo, hi) ==
    IF lo > hi THEN <<>>
    ELSE IF lo = hi THEN pieces[lo]
    ELSE LET mid == (lo + hi) \div 2
         IN  Concat(pieces, lo, mid) \o Concat(pieces, mid + 1, hi)

\* str.replace(old, new) for a non-empty old no proper suffix of which is a
\* prefix of it (as "http://", "https://" and "." are): no two occurrences
\* overlap, so every one of them is replaced.
replace(text, old, new) ==
    LET inside(i) == \E j \in (i - Len(old) + 1)..(i - 1) : OccursAt(text, old, j)
        pieces == [i \in 1..Len(text) |->
                     IF OccursAt(text, old, i) THEN new
                     ELSE IF inside(i) THEN <<>> ELSE <<text[i]>>]
    IN  Concat(pieces, 1, Len(text))

----------------------------------------------------------------------------
(* Decimal digits and letter case of Unicode, as CPython 3.11 has them     *)

\* The runs of decimal digits (category Nd of Unicode 14): each run is one or
\* more sets of the ten digits in order, zero first.
DecimalDigits == <<
    <<48,57>>, <<1632,1641>>, <<1776,1785>>, <<1984,1993>>, <<2406,2415>>, <<2534,2543>>,
    <<2662,2671>>, <<2790,2799>>, <<2918,2927>>, <<3046,3055>>, <<3174,3183>>, <<3302,3311>>,
    <<3430,3439>>, <<3558,3567>>, <<3664,3673>>, <<3792,3801>>, <<3872,3881>>, <<4160,4169>>,
    <<4240,4249>>, <<6112,6121>>, <<6160,6169>>, <<6470,6479>>, <<6608,6617>>, <<6784,6793>>,
    <<6800,6809>>, <<6992,7001>>, <<7088,7097>>, <<7232,7241>>, <<7248,7257>>, <<42528,42537>>,
    <<43216,43225>>, <<43264,43273>>, <<43472,43481>>, <<43504,43513>>, <<43600,43609>>,
    <<44016,44025>>, <<65296,65305>>, <<66720,66729>>, <<68912,68921>>, <<69734,69743>>,
    <<69872,69881>>, <<69942,69951>>, <<70096,70105>>, <<70384,70393>>, <<70736,70745>>,
    <<70864,70873>>, <<71248,71257>>, <<71360,71369>>, <<71472,71481>>, <<71904,71913>>,
    <<72016,72025>>, <<72784,72793>>, <<73040,73049>>, <<73120,73129>>, <<92768,92777>>,
    <<92864,92873>>, <<93008,93017>>, <<120782,120831>>, <<123200,123209>>, <<123632,123641>>,
    <<125264,125273>>, <<130032,130041>> >>

\* Whether the code point n lies in one of the ranges of the table.
InRanges(table, n) == \E r \in 1..Len(table) : table[r][1] <= n /\ n <= table[r][2]

\* Py_UNICODE_TODECIMAL: the value of a decimal digit of any script, -1 for
\* a character that is no decimal digit.
DecimalOfCode(n) ==
    IF n < 128 THEN (IF n \in 48..57 THEN n - 48 ELSE -1)
    ELSE IF ~InRanges(DecimalDigits, n) THEN -1
    ELSE (n - DecimalDigits[CHOOSE r \in 1..Len(DecimalDigits) :
                               DecimalDigits[r][1] <= n /\ n <= DecimalDigits[r][2]][1]) % 10

ToDecimal(c) == DecimalOfCode(Ord(c))

\* The character is a decimal digit for int() and Decimal().
IsDigit(c) == ToDecimal(c) >= 0

\* The ASCII digit of the value d.
AsciiDigit(d) == Chr(48 + d)

\* The lower-case mapping of Unicode 14: <<first, last, step, offset>> maps
\* the code points first, first + step, ..., last to themselves plus offset.
LowerCase == <<
    <<65,90,1,32>>, <<192,214,1,32>>, <<216,222,1,32>>, <<256,302,2,1>>, <<306,310,2,1>>,
    <<313,327,2,1>>, <<330,374,2,1>>, <<376,376,1,-121>>, <<377,381,2,1>>, <<385,385,1,210>>,
    <<386,388,2,1>>, <<390,390,1,206>>, <<391,391,1,1>>, <<393,394,1,205>>, <<395,395,1,1>>,
    <<398,398,1,79>>, <<399,399,1,202>>, <<400,400,1,203>>, <<401,401,1,1>>, <<403,403,1,205>>,
    <<404,404,1,207>>, <<406,406,1,211>>, <<407,407,1,209>>, <<408,408,1,1>>, <<412,412,1,211>>,
    <<413,413,1,213>>, <<415,415,1,214>>, <<416,420,2,1>>, <<422,422,1,218>>, <<423,423,1,1>>,
    <<425,425,1,218>>, <<428,428,1,1>>, <<430,430,1,218>>, <<431,431,1,1>>, <<433,434,1,217>>,
    <<435,437,2,1>>, <<439,439,1,219>>, <<440,440,1,1>>, <<444,444,1,1>>, <<452,452,1,2>>,
    <<453,453,1,1>>, <<455,455,1,2>>, <<456,456,1,1>>, <<458,458,1,2>>, <<459,475,2,1>>,
    <<478,494,2,1>>, <<497,497,1,2>>, <<498,500,2,1>>, <<502,502,1,-97>>, <<503,503,1,-56>>,
    <<504,542,2,1>>, <<544,544,1,-130>>, <<546,562,2,1>>, <<570,570,1,10795>>, <<571,571,1,1>>,
    <<573,573,1,-163>>, <<574,574,1,10792>>, <<577,577,1,1>>, <<579,579,1,-195>>,
    <<580,580,1,69>>, <<581,581,1,71>>, <<582,590,2,1>>, <<880,882,2,1>>, <<886,886,1,1>>,
    <<895,895,1,116>>, <<902,902,1,38>>, <<904,906,1,37>>, <<908,908,1,64>>, <<910,911,1,63>>,
    <<913,929,1,32>>, <<931,939,1,32>>, <<975,975,1,8>>, <<984,1006,2,1>>, <<1012,1012,1,-60>>,
    <<1015,1015,1,1>>, <<1017,1017,1,-7>>, <<1018,1018,1,1>>, <<1021,1023,1,-130>>,
    <<1024,1039,1,80>>, <<1040,1071,1,32>>, <<1120,1152,2,1>>, <<1162,1214,2,1>>,
    <<1216,1216,1,15>>, <<1217,1229,2,1>>, <<1232,1326,2,1>>, <<1329,1366,1,48>>,
    <<4256,4293,1,7264>>, <<4295,4295,1,7264>>, <<4301,4301,1,7264>>, <<5024,5103,1,38864>>,
    <<5104,5109,1,8>>, <<7312,7354,1,-3008>>, <<7357,7359,1,-3008>>, <<7680,7828,2,1>>,
    <<7838,7838,1,-7615>>, <<7840,7934,2,1>>, <<7944,7951,1,-8>>, <<7960,7965,1,-8>>,
    <<7976,7983,1,-8>>, <<7992,7999,1,-8>>, <<8008,8013,1,-8>>, <<8025,8031,2,-8>>,
    <<8040,8047,1,-8>>, <<8072,8079,1,-8>>, <<8088,8095,1,-8>>, <<8104,8111,1,-8>>,
    <<8120,8121,1,-8>>, <<8122,8123,1,-74>>, <<8124,8124,1,-9>>, <<8136,8139,1,-86>>,
    <<8140,8140,1,-9>>, <<8152,8153,1,-8>>, <<8154,8155,1,-100>>, <<8168,8169,1,-8>>,
    <<8170,8171,1,-112>>, <<8172,8172,1,-7>>, <<8184,8185,1,-128>>, <<8186,8187,1,-126>>,
    <<8188,8188,1,-9>>, <<8486,8486,1,-7517>>, <<8490,8490,1,-8383>>, <<8491,8491,1,-8262>>,
    <<8498,8498,1,28>>, <<8544,8559,1,16>>, <<8579,8579,1,1>>, <<9398,9423,1,26>>,
    <<11264,11311,1,48>>, <<11360,11360,1,1>>, <<11362,11362,1,-10743>>, <<11363,11363,1,-3814>>,
    <<11364,11364,1,-10727>>, <<11367,11371,2,1>>, <<11373,11373,1,-10780>>,
    <<11374,11374,1,-10749>>, <<11375,11375,1,-10783>>, <<11376,11376,1,-10782>>,
    <<11378,11378,1,1>>, <<11381,11381,1,1>>, <<11390,11391,1,-10815>>, <<11392,11490,2,1>>,
    <<11499,11501,2,1>>, <<11506,11506,1,1>>, <<42560,42604,2,1>>, <<42624,42650,2,1>>,
    <<42786,42798,2,1>>, <<42802,42862,2,1>>, <<42873,42875,2,1>>, <<42877,42877,1,-35332>>,
    <<42878,42886,2,1>>, <<42891,42891,1,1>>, <<42893,42893,1,-42280>>, <<42896,42898,2,1>>,
    <<42902,42920,2,1>>, <<42922,42922,1,-42308>>, <<42923,42923,1,-42319>>,
    <<42924,42924,1,-42315>>, <<42925,42925,1,-42305>>, <<42926,42926,1,-42308>>,
    <<42928,42928,1,-42258>>, <<42929,42929,1,-42282>>, <<42930,42930,1,-42261>>,
    <<42931,42931,1,928>>, <<42932,42946,2,1>>, <<42948,42948,1,-48>>, <<42949,42949,1,-42307>>,
    <<42950,42950,1,-35384>>, <<42951,42953,2,1>>, <<42960,42960,1,1>>, <<42966,42968,2,1>>,
    <<42997,42997,1,1>>, <<65313,65338,1,32>>, <<66560,66599,1,40>>, <<66736,66771,1,40>>,
    <<66928,66938,1,39>>, <<66940,66954,1,39>>, <<66956,66962,1,39>>, <<66964,66965,1,39>>,
    <<68736,68786,1,64>>, <<71840,71871,1,32>>, <<93760,93791,1,32>>, <<125184,125217,1,34>> >>

\* The code point ranges of the cased characters (Lowercase, Uppercase or Lt).
Cased == <<
    <<65,90>>, <<97,122>>, <<170,170>>, <<181,181>>, <<186,186>>, <<192,214>>, <<216,246>>,
    <<248,442>>, <<444,447>>, <<452,659>>, <<661,696>>, <<704,705>>, <<736,740>>, <<837,837>>,
    <<880,883>>, <<886,887>>, <<890,893>>, <<895,895>>, <<902,902>>, <<904,906>>, <<908,908>>,
    <<910,929>>, <<931,1013>>, <<1015,1153>>, <<1162,1327>>, <<1329,1366>>, <<1376,1416>>,
    <<4256,4293>>, <<4295,4295>>, <<4301,4301>>, <<4304,4346>>, <<4349,4351>>, <<5024,5109>>,
    <<5112,5117>>, <<7296,7304>>, <<7312,7354>>, <<7357,7359>>, <<7424,7615>>, <<7680,7957>>,
    <<7960,7965>>, <<7968,8005>>, <<8008,8013>>, <<8016,8023>>, <<8025,8025>>, <<8027,8027>>,
    <<8029,8029>>, <<8031,8061>>, <<8064,8116>>, <<8118,8124>>, <<8126,8126>>, <<8130,8132>>,
    <<8134,8140>>, <<8144,8147>>, <<8150,8155>>, <<8160,8172>>, <<8178,8180>>, <<8182,8188>>,
    <<8305,8305>>, <<8319,8319>>, <<8336,8348>>, <<8450,8450>>, <<8455,8455>>, <<8458,8467>>,
    <<8469,8469>>, <<8473,8477>>, <<8484,8484>>, <<8486,8486>>, <<8488,8488>>, <<8490,8493>>,
    <<8495,8500>>, <<8505,8505>>, <<8508,8511>>, <<8517,8521>>, <<8526,8526>>, <<8544,8575>>,
    <<8579,8580>>, <<9398,9449>>, <<11264,11492>>, <<11499,11502>>, <<11506,11507>>,
    <<11520,11557>>, <<11559,11559>>, <<11565,11565>>, <<42560,42605>>, <<42624,42653>>,
    <<42786,42887>>, <<42891,42894>>, <<42896,42954>>, <<42960,42961>>, <<42963,42963>>,
    <<42965,42969>>, <<42997,42998>>, <<43000,43002>>, <<43824,43866>>, <<43868,43880>>,
    <<43888,43967>>, <<64256,64262>>, <<64275,64279>>, <<65313,65338>>, <<65345,65370>>,
    <<66560,66639>>, <<66736,66771>>, <<66776,66811>>, <<66928,66938>>, <<66940,66954>>,
    <<66956,66962>>, <<66964,66965>>, <<66967,66977>>, <<66979,66993>>, <<66995,67001>>,
    <<67003,67004>>, <<67456,67456>>, <<67459,67461>>, <<67463,67504>>, <<67506,67514>>,
    <<68736,68786>>, <<68800,68850>>, <<71840,71903>>, <<93760,93823>>, <<119808,119892>>,
    <<119894,119964>>, <<119966,119967>>, <<119970,119970>>, <<119973,119974>>, <<119977,119980>>,
    <<119982,119993>>, <<119995,119995>>, <<119997,120003>>, <<120005,120069>>, <<120071,120074>>,
    <<120077,120084>>, <<120086,120092>>, <<120094,120121>>, <<120123,120126>>, <<120128,120132>>,
    <<120134,120134>>, <<120138,120144>>, <<120146,120485>>, <<120488,120512>>, <<120514,120538>>,
    <<120540,120570>>, <<120572,120596>>, <<120598,120628>>, <<120630,120654>>, <<120656,120686>>,
    <<120688,120712>>, <<120714,120744>>, <<120746,120770>>, <<120772,120779>>, <<122624,122633>>,
    <<122635,122654>>, <<125184,125251>>, <<127280,127305>>, <<127312,127337>>, <<127344,127369>> >>

\* The code point ranges of the case-ignorable characters.
CaseIgnorable == <<
    <<39,39>>, <<46,46>>, <<58,58>>, <<94,94>>, <<96,96>>, <<168,168>>, <<173,173>>, <<175,175>>,
    <<180,180>>, <<183,184>>, <<688,879>>, <<884,885>>, <<890,890>>, <<900,901>>, <<903,903>>,
    <<1155,1161>>, <<1369,1369>>, <<1375,1375>>, <<1425,1469>>, <<1471,1471>>, <<1473,1474>>,
    <<1476,1477>>, <<1479,1479>>, <<1524,1524>>, <<1536,1541>>, <<1552,1562>>, <<1564,1564>>,
    <<1600,1600>>, <<1611,1631>>, <<1648,1648>>, <<1750,1757>>, <<1759,1768>>, <<1770,1773>>,
    <<1807,1807>>, <<1809,1809>>, <<1840,1866>>, <<1958,1968>>, <<2027,2037>>, <<2042,2042>>,
    <<2045,2045>>, <<2070,2093>>, <<2137,2139>>, <<2184,2184>>, <<2192,2193>>, <<2200,2207>>,
    <<2249,2306>>, <<2362,2362>>, <<2364,2364>>, <<2369,2376>>, <<2381,2381>>, <<2385,2391>>,
    <<2402,2403>>, <<2417,2417>>, <<2433,2433>>, <<2492,2492>>, <<2497,2500>>, <<2509,2509>>,
    <<2530,2531>>, <<2558,2558>>, <<2561,2562>>, <<2620,2620>>, <<2625,2626>>, <<2631,2632>>,
    <<2635,2637>>, <<2641,2641>>, <<2672,2673>>, <<2677,2677>>, <<2689,2690>>, <<2748,2748>>,
    <<2753,2757>>, <<2759,2760>>, <<2765,2765>>, <<2786,2787>>, <<2810,2815>>, <<2817,2817>>,
    <<2876,2876>>, <<2879,2879>>, <<2881,2884>>, <<2893,2893>>, <<2901,2902>>, <<2914,2915>>,
    <<2946,2946>>, <<3008,3008>>, <<3021,3021>>, <<3072,3072>>, <<3076,3076>>, <<3132,3132>>,
    <<3134,3136>>, <<3142,3144>>, <<3146,3149>>, <<3157,3158>>, <<3170,3171>>, <<3201,3201>>,
    <<3260,3260>>, <<3263,3263>>, <<3270,3270>>, <<3276,3277>>, <<3298,3299>>, <<3328,3329>>,
    <<3387,3388>>, <<3393,3396>>, <<3405,3405>>, <<3426,3427>>, <<3457,3457>>, <<3530,3530>>,
    <<3538,3540>>, <<3542,3542>>, <<3633,3633>>, <<3636,3642>>, <<3654,3662>>, <<3761,3761>>,
    <<3764,3772>>, <<3782,3782>>, <<3784,3789>>, <<3864,3865>>, <<3893,3893>>, <<3895,3895>>,
    <<3897,3897>>, <<3953,3966>>, <<3968,3972>>, <<3974,3975>>, <<3981,3991>>, <<3993,4028>>,
    <<4038,4038>>, <<4141,4144>>, <<4146,4151>>, <<4153,4154>>, <<4157,4158>>, <<4184,4185>>,
    <<4190,4192>>, <<4209,4212>>, <<4226,4226>>, <<4229,4230>>, <<4237,4237>>, <<4253,4253>>,
    <<4348,4348>>, <<4957,4959>>, <<5906,5908>>, <<5938,5939>>, <<5970,5971>>, <<6002,6003>>,
    <<6068,6069>>, <<6071,6077>>, <<6086,6086>>, <<6089,6099>>, <<6103,6103>>, <<6109,6109>>,
    <<6155,6159>>, <<6211,6211>>, <<6277,6278>>, <<6313,6313>>, <<6432,6434>>, <<6439,6440>>,
    <<6450,6450>>, <<6457,6459>>, <<6679,6680>>, <<6683,6683>>, <<6742,6742>>, <<6744,6750>>,
    <<6752,6752>>, <<6754,6754>>, <<6757,6764>>, <<6771,6780>>, <<6783,6783>>, <<6823,6823>>,
    <<6832,6862>>, <<6912,6915>>, <<6964,6964>>, <<6966,6970>>, <<6972,6972>>, <<6978,6978>>,
    <<7019,7027>>, <<7040,7041>>, <<7074,7077>>, <<7080,7081>>, <<7083,7085>>, <<7142,7142>>,
    <<7144,7145>>, <<7149,7149>>, <<7151,7153>>, <<7212,7219>>, <<7222,7223>>, <<7288,7293>>,
    <<7376,7378>>, <<7380,7392>>, <<7394,7400>>, <<7405,7405>>, <<7412,7412>>, <<7416,7417>>,
    <<7468,7530>>, <<7544,7544>>, <<7579,7679>>, <<8125,8125>>, <<8127,8129>>, <<8141,8143>>,
    <<8157,8159>>, <<8173,8175>>, <<8189,8190>>, <<8203,8207>>, <<8216,8217>>, <<8228,8228>>,
    <<8231,8231>>, <<8234,8238>>, <<8288,8292>>, <<8294,8303>>, <<8305,8305>>, <<8319,8319>>,
    <<8336,8348>>, <<8400,8432>>, <<11388,11389>>, <<11503,11505>>, <<11631,11631>>,
    <<11647,11647>>, <<11744,11775>>, <<11823,11823>>, <<12293,12293>>, <<12330,12333>>,
    <<12337,12341>>, <<12347,12347>>, <<12441,12446>>, <<12540,12542>>, <<40981,40981>>,
    <<42232,42237>>, <<42508,42508>>, <<42607,42610>>, <<42612,42621>>, <<42623,42623>>,
    <<42652,42655>>, <<42736,42737>>, <<42752,42785>>, <<42864,42864>>, <<42888,42890>>,
    <<42994,42996>>, <<43000,43001>>, <<43010,43010>>, <<43014,43014>>, <<43019,43019>>,
    <<43045,43046>>, <<43052,43052>>, <<43204,43205>>, <<43232,43249>>, <<43263,43263>>,
    <<43302,43309>>, <<43335,43345>>, <<43392,43394>>, <<43443,43443>>, <<43446,43449>>,
    <<43452,43453>>, <<43471,43471>>, <<43493,43494>>, <<43561,43566>>, <<43569,43570>>,
    <<43573,43574>>, <<43587,43587>>, <<43596,43596>>, <<43632,43632>>, <<43644,43644>>,
    <<43696,43696>>, <<43698,43700>>, <<43703,43704>>, <<43710,43711>>, <<43713,43713>>,
    <<43741,43741>>, <<43756,43757>>, <<43763,43764>>, <<43766,43766>>, <<43867,43871>>,
    <<43881,43883>>, <<44005,44005>>, <<44008,44008>>, <<44013,44013>>, <<64286,64286>>,
    <<64434,64450>>, <<65024,65039>>, <<65043,65043>>, <<65056,65071>>, <<65106,65106>>,
    <<65109,65109>>, <<65279,65279>>, <<65287,65287>>, <<65294,65294>>, <<65306,65306>>,
    <<65342,65342>>, <<65344,65344>>, <<65392,65392>>, <<65438,65439>>, <<65507,65507>>,
    <<65529,65531>>, <<66045,66045>>, <<66272,66272>>, <<66422,66426>>, <<67456,67461>>,
    <<67463,67504>>, <<67506,67514>>, <<68097,68099>>, <<68101,68102>>, <<68108,68111>>,
    <<68152,68154>>, <<68159,68159>>, <<68325,68326>>, <<68900,68903>>, <<69291,69292>>,
    <<69446,69456>>, <<69506,69509>>, <<69633,69633>>, <<69688,69702>>, <<69744,69744>>,
    <<69747,69748>>, <<69759,69761>>, <<69811,69814>>, <<69817,69818>>, <<69821,69821>>,
    <<69826,69826>>, <<69837,69837>>, <<69888,69890>>, <<69927,69931>>, <<69933,69940>>,
    <<70003,70003>>, <<70016,70017>>, <<70070,70078>>, <<70089,70092>>, <<70095,70095>>,
    <<70191,70193>>, <<70196,70196>>, <<70198,70199>>, <<70206,70206>>, <<70367,70367>>,
    <<70371,70378>>, <<70400,70401>>, <<70459,70460>>, <<70464,70464>>, <<70502,70508>>,
    <<70512,70516>>, <<70712,70719>>, <<70722,70724>>, <<70726,70726>>, <<70750,70750>>,
    <<70835,70840>>, <<70842,70842>>, <<70847,70848>>, <<70850,70851>>, <<71090,71093>>,
    <<71100,71101>>, <<71103,71104>>, <<71132,71133>>, <<71219,71226>>, <<71229,71229>>,
    <<71231,71232>>, <<71339,71339>>, <<71341,71341>>, <<71344,71349>>, <<71351,71351>>,
    <<71453,71455>>, <<71458,71461>>, <<71463,71467>>, <<71727,71735>>, <<71737,71738>>,
    <<71995,71996>>, <<71998,71998>>, <<72003,72003>>, <<72148,72151>>, <<72154,72155>>,
    <<72160,72160>>, <<72193,72202>>, <<72243,72248>>, <<72251,72254>>, <<72263,72263>>,
    <<72273,72278>>, <<72281,72283>>, <<72330,72342>>, <<72344,72345>>, <<72752,72758>>,
    <<72760,72765>>, <<72767,72767>>, <<72850,72871>>, <<72874,72880>>, <<72882,72883>>,
    <<72885,72886>>, <<73009,73014>>, <<73018,73018>>, <<73020,73021>>, <<73023,73029>>,
    <<73031,73031>>, <<73104,73105>>, <<73109,73109>>, <<73111,73111>>, <<73459,73460>>,
    <<78896,78904>>, <<92912,92916>>, <<92976,92982>>, <<92992,92995>>, <<94031,94031>>,
    <<94095,94111>>, <<94176,94177>>, <<94179,94180>>, <<110576,110579>>, <<110581,110587>>,
    <<110589,110590>>, <<113821,113822>>, <<113824,113827>>, <<118528,118573>>, <<118576,118598>>,
    <<119143,119145>>, <<119155,119170>>, <<119173,119179>>, <<119210,119213>>, <<119362,119364>>,
    <<121344,121398>>, <<121403,121452>>, <<121461,121461>>, <<121476,121476>>, <<121499,121503>>,
    <<121505,121519>>, <<122880,122886>>, <<122888,122904>>, <<122907,122913>>, <<122915,122916>>,
    <<122918,122922>>, <<123184,123197>>, <<123566,123566>>, <<123628,123631>>, <<125136,125142>>,
    <<125252,125259>>, <<127995,127999>>, <<917505,917505>>, <<917536,917631>>, <<917760,917999>> >>

\* The run of the lower-case mapping that holds the code point n, if any.
LowerRuns(n) ==
    {r \in 1..Len(LowerCase) :
        /\ LowerCase[r][1] <= n /\ n <= LowerCase[r][2]
        /\ (n - LowerCase[r][1]) % LowerCase[r][3] = 0}

\* The lower case of the code point n when it is a single character.
LowerOfCode(n) ==
    IF LowerRuns(n) = {} THEN n ELSE n + LowerCase[CHOOSE r \in LowerRuns(n) : TRUE][4]

IsCased(c) == InRanges(Cased, Ord(c))
IsCaseIgnorable(c) == InRanges(CaseIgnorable, Ord(c))

\* The capital sigma at index i is in the final position: a cased character
\* comes before it and none comes after it, case-ignorable characters being
\* passed over.
final_sigma(text, i) ==
    LET before == {j \in 1..(i - 1) : ~IsCaseIgnorable(text[j])}
        after == {j \in (i + 1)..Len(text) : ~IsCaseIgnorable(text[j])}
    IN  /\ before # {}
        /\ IsCased(text[CHOOSE j \in before : \A k \in before : k <= j])
        /\ (after = {} \/ ~IsCased(text[CHOOSE j \in after : \A k \in after : j <= k]))

\* The lower case of the character at index i: a capital sigma by its
\* position, a capital I with a dot as "i" and a combining dot, any other
\* character by the mapping.
lower_at(text, i) ==
    CASE Len(text[i]) = 1 ->
            (IF Ord(text[i]) \in 65..90 THEN <<Chr(Ord(text[i]) + 32)>> ELSE <<text[i]>>)
      [] Ord(text[i]) = 931 -> (IF final_sigma(text, i) THEN <<"U+03C2">> ELSE <<"U+03C3">>)
      [] Ord(text[i]) = 304 -> <<"i", "U+0307">>
      [] OTHER -> <<Chr(LowerOfCode(Ord(text[i])))>>

\* str.lower()
lower(text) == Concat([i \in 1..Len(text) |-> lower_at(text, i)], 1, Len(text))

\* The text with its ASCII capitals in lower case.
ascii_lower(text) ==
    [i \in 1..Len(text) |->
        IF Ord(text[i]) \in 65..90 THEN Chr(Ord(text[i]) + 32) ELSE text[i]]

----------------------------------------------------------------------------
(* Python values that reach the decoder from an untyped event              *)

PyNone == [k |-> "none", s |-> <<>>, n |-> 0]
PyStr(text) == [k |-> "str", s |-> text, n |-> 0]
PyInt(i) == [k |-> "int", s |-> <<>>, n |-> i]
PyAbsent == [k |-> "absent", s |-> <<>>, n |-> 0]

PyList == [k |-> "list", s |-> <<>>, n |-> 0]            \* the empty list
PyDict == [k |-> "dict", s |-> <<>>, n |-> 0]            \* a dict; its entries are held beside it
PyFloat(text) == [k |-> "float", s |-> text, n |-> 0]    \* a float, by its str(): "2.5", "1e+22", "inf", "nan"

\* bool(v): the truth value Python gives v in `if v` and `if not v`.
Truthy(v) == CASE v.k = "str" -> v.s # <<>>
               [] v.k = "int" -> v.n # 0
               [] v.k = "float" -> v.s \notin {Str("0.0"), Str("-0.0")}
               [] OTHER -> FALSE

\* type(v).__name__
TypeName(v) == CASE v.k = "str" -> "str"
                 [] v.k = "int" -> "int"
                 [] v.k = "float" -> "float"
                 [] v.k = "list" -> "list"
                 [] v.k = "dict" -> "dict"
                 [] OTHER -> "NoneType"

\* The outcome of a call: a returned value, or an exception with its message.
Return(v) == [raised |-> FALSE, exc |-> "", value |-> v]
Raise(kind) == [raised |-> TRUE, exc |-> kind, value |-> <<>>]

----------------------------------------------------------------------------
(* base64.b64decode and bytes.decode('utf-8', errors='ignore')             *)

B64Chars == "ABCDEFGHIJKLMNOPQRSTUVWXYZabcdefghijklmnopqrstuvwxyz0123456789+/"

B64Val == [c \in CharsOf(B64Chars) |-> IndexIn(B64Chars, c) - 1]

\* One character of binascii.a2b_base64 (non-strict): characters outside the
\* alphabet are skipped, and a complete run of padding ends the input.
a2b_step(st, ch) ==
    IF st.done THEN st
    ELSE IF ch = "=" THEN
        IF st.quad >= 2
        THEN [st EXCEPT !.pads = @ + 1, !.done = (st.quad + st.pads + 1 >= 4)]
        ELSE st
    ELSE IF ch \notin DOMAIN B64Val THEN st
    ELSE LET v == B64Val[ch] IN
        CASE st.quad = 0 -> [st EXCEPT !.pads = 0, !.quad = 1, !.left = v]
          [] st.quad = 1 -> [st EXCEPT !.pads = 0, !.quad = 2, !.left = v % 16,
                                       !.out = Append(@, st.left * 4 + (v \div 16))]
          [] st.quad = 2 -> [st EXCEPT !.pads = 0, !.quad = 3, !.left = v % 4,
                                       !.out = Append(@, st.left * 16 + (v \div 4))]
          [] OTHER       -> [st EXCEPT !.pads = 0, !.quad = 0, !.left = 0,
                                       !.out = Append(@, st.left * 64 + v)]

\* The characters lo..hi of data, taken in order from state st.
RECURSIVE a2b_run(_, _, _, _)
a2b_run(data, lo, hi, st) ==
    IF lo > hi THEN st
    ELSE IF lo = hi THEN a2b_step(st, data[lo])
    ELSE LET mid == (lo + hi) \div 2
             half == a2b_run(data, lo, mid, st)
         IN  IF half.done THEN half ELSE a2b_run(data, mid + 1, hi, half)

\* The decimal numeral of n, as "%d" writes it.
RECURSIVE Numeral(_)
Numeral(n) == IF n < 10 THEN SubSeq(HexDigits, n + 1, n + 1)
              ELSE Numeral(n \div 10) \o SubSeq(HexDigits, (n % 10) + 1, (n % 10) + 1)

\* The end of binascii.a2b_base64: a group left with one character cannot
\* be padded, a group left with two or three lacks its padding.
a2b_end(st) ==
    IF st.done \/ st.quad = 0 THEN Return(st.out)
    ELSE IF st.quad = 1
    THEN Raise("binascii.Error: Invalid base64-encoded string: number of data characters ("
               \o Numeral((Len(st.out) \div 3) * 4 + 1)
               \o ") cannot be 1 more than a multiple of 4")
    ELSE Raise("binascii.Error: Incorrect padding")

\* base64.b64decode(data) for a str: the bytes, or the exception raised.
b64decode(data) ==
    IF \E i \in 1..Len(data) : Ord(data[i]) >= 128
    THEN Raise("ValueError: string argument should contain only ASCII characters")
    ELSE a2b_end(a2b_run(data, 1, Len(data),
                         [quad |-> 0, left |-> 0, pads |-> 0, out |-> <<>>, done |-> FALSE]))

IsCont(b) == b \in 128..191

\* The UTF-8 sequence that starts at index i: how many bytes the decoder takes
\* and whether they form a character (an ill-formed sequence is dropped up to
\* its first offending byte).
Utf8At(bytes, i) ==
    LET at(k) == IF i + k <= Len(bytes) THEN bytes[i + k] ELSE -1
        b0 == bytes[i]
        lo1 == IF b0 = 224 THEN 160 ELSE IF b0 = 240 THEN 144 ELSE 128
        hi1 == IF b0 = 237 THEN 159 ELSE IF b0 = 244 THEN 143 ELSE 191
    IN  IF b0 < 128 THEN [len |-> 1, ok |-> TRUE, cp |-> b0]
        ELSE IF b0 \in 194..223 THEN
            IF IsCont(at(1)) THEN [len |-> 2, ok |-> TRUE, cp |-> (b0 % 32) * 64 + (at(1) % 64)]
            ELSE [len |-> 1, ok |-> FALSE, cp |-> 0]
        ELSE IF b0 \in 224..239 THEN
            IF ~(at(1) \in lo1..hi1) THEN [len |-> 1, ok |-> FALSE, cp |-> 0]
            ELSE IF ~IsCont(at(2)) THEN [len |-> 2, ok |-> FALSE, cp |-> 0]
            ELSE [len |-> 3, ok |-> TRUE,
                  cp |-> (b0 % 16) * 4096 + (at(1) % 64) * 64 + (at(2) % 64)]
        ELSE IF b0 \in 240..244 THEN
            IF ~(at(1) \in lo1..hi1) THEN [len |-> 1, ok |-> FALSE, cp |-> 0]
            ELSE IF ~IsCont(at(2)) THEN [len |-> 2, ok |-> FALSE, cp |-> 0]
            ELSE IF ~IsCont(at(3)) THEN [len |-> 3, ok |-> FALSE, cp |-> 0]
            ELSE [len |-> 4, ok |-> TRUE,
                  cp |-> (b0 % 8) * 262144 + (at(1) % 64) * 4096 + (at(2) % 64) * 64 + (at(3) % 64)]
        ELSE [len |-> 1, ok |-> FALSE, cp |-> 0]

\* bytes.decode('utf-8', errors='ignore').  A byte outside 128..191 is never
\* taken as a continuation of an earlier sequence, so it always starts one; a
\* byte in 128..191 is either taken by the sequence before it or dropped.
utf8_decode_ignore(bytes) ==
    LET starts == SelectSeq([i \in 1..Len(bytes) |-> i],
                            LAMBDA i : ~IsCont(bytes[i]) /\ Utf8At(bytes, i).ok)
    IN  [k \in 1..Len(starts) |-> Chr(Utf8At(bytes, starts[k]).cp)]

----------------------------------------------------------------------------
(* TonDecoder.decode_base64_comment                                        *)

MaxEncodedLen == 4096

Placeholder == Str("<encoded payload too large>")

\* The defang step without its last replace: the dots are left as they are.
defang_links_only(text) ==
    replace(replace(text, Str("http://"), Str("hxxp://")), Str("https://"), Str("hxxps://"))

\* The defang step of the decoder's last line.
defang(text) ==
    replace(replace(replace(text, Str("http://"), Str("hxxp://")),
                    Str("https://"), Str("hxxps://")),
            Str("."), Str("[.]"))

\* The decoded, stripped and filtered text, before the defang step.
decoded_text(bytes) == printable(strip(utf8_decode_ignore(bytes)))

\* The body of the try block with the size cap off by one (>= for >).
decode_try_cap_inclusive(b64) ==
    IF ~Truthy(b64) THEN Return(<<>>)
    ELSE IF b64.k # "str" THEN Raise("TypeError: object has no len()")
    ELSE IF Len(b64.s) >= MaxEncodedLen THEN Return(Placeholder)
    ELSE LET d == b64decode(b64.s)
         IN  IF d.raised THEN d ELSE Return(defang(decoded_text(d.value)))

\* The body of the try block.
decode_try(b64) ==
    IF ~Truthy(b64) THEN Return(<<>>)
    ELSE IF b64.k # "str" THEN Raise("TypeError: object has no len()")
    ELSE IF Len(b64.s) > MaxEncodedLen THEN Return(Placeholder)
    ELSE LET d == b64decode(b64.s)
         IN  IF d.raised THEN d ELSE Return(defang(decoded_text(d.value)))

\* try: ... except Exception: return ""
decode_base64_comment(b64) ==
    LET r == decode_try(b64) IN IF r.raised THEN Return(<<>>) ELSE r

----------------------------------------------------------------------------
(* Inputs of the decoder                                                   *)

\* base64.b64encode of an ASCII text (used to build encoded comments).
B64Enc(text) ==
    LET n == Len(text)
        byte(i) == IF i <= n THEN Ord(text[i]) ELSE 0
        ch(v) == SubSeq(B64Chars, v + 1, v + 1)
        group(g) ==
            LET i == 3 * g - 2
                v == byte(i) * 65536 + byte(i + 1) * 256 + byte(i + 2)
            IN  <<ch(v \div 262144), ch((v \div 4096) % 64),
                  IF i + 1 <= n THEN ch((v \div 64) % 64) ELSE "=",
                  IF i + 2 <= n THEN ch(v % 64) ELSE "=">>
    IN  [k \in 1..(4 * ((n + 2) \div 3)) |-> group((k + 3) \div 4)[((k - 1) % 4) + 1]]

RECURSIVE TextsUpTo(_, _)
TextsUpTo(alphabet, n) ==
    IF n = 0 THEN {<<>>}
    ELSE LET shorter == TextsUpTo(alphabet, n - 1)
         IN  shorter \cup {Append(t, c) : t \in shorter, c \in alphabet}

Repeat(text, times) == [i \in 1..(Len(text) * times) |-> text[((i - 1) % Len(text)) + 1]]

\* Bounds of the decoder's inputs.
MaxPayloadLen == 4

\* A word character, a dot and a non-word character.
PayloadAlphabet == {"a", ".", " "}

\* Payloads given before encoding.
PayloadTexts ==
    TextsUpTo(PayloadAlphabet, MaxPayloadLen)
    \cup { Str("http://a.b"), Str("https://evil.com"), Str("visit https://evil.com now."),
           Str("hhttp://ttp://x"), Str("httpshttp://://"), Str("Hi. there"), Str("v1.2.3"),
           Str("a_b.c_d"), Str("..."), Str("e.g. x"), Placeholder,
           <<"a", "U+000A", "b">>, <<"U+001B", "[", "3", "1", "m", "r", "e", "d">>,
           <<" ", "U+0009", "x", ".", "y", "U+000D", "U+000A">>, <<"U+007F", "U+0000">> }

\* Comments given as they arrive: encoded payloads, text that is not base64,
\* payloads that are not UTF-8, and inputs at and over the size cap.
EncodedComments ==
    { B64Enc(t) : t \in PayloadTexts }
    \cup { Str("hello"), Str("https://evil.com"), Str("a.b"), Str("YQ"), Str("YQ="), Str("Y"),
           Str("YS5i!"), Str("Y S 5-i"), Str("YS5i===="), Str("YS4=YQ=="), Str("=YS5i"),
           Str("w6k="), Str("wqBhwqA="), Str("0L/RgC7RhA=="), Str("/////w=="), Str("4oKs"),
           Str("4oJh"), Str("8J+SuA=="), Str("7aCA"), Str("wq0u"),
           <<"Y", "Q", "U+00E9", "=">>, <<"U+000A", "Y", "S", "5", "i", "U+000A">> }
    \cup { Repeat(Str("QUFB"), MaxEncodedLen \div 4),
           Append(Repeat(Str("QUFB"), MaxEncodedLen \div 4), "="),
           Repeat(Str("YS5i"), MaxEncodedLen \div 4),
           Repeat(Str("A"), MaxEncodedLen + 1),
           Repeat(Str("!"), MaxEncodedLen), Repeat(Str("!"), MaxEncodedLen + 1),
           SubSeq(Repeat(B64Enc(Placeholder), 114), 1, MaxEncodedLen + 1) }

DecodeInputs ==
    {PyNone, PyInt(0), PyInt(5)} \cup { PyStr(t) : t \in EncodedComments }

----------------------------------------------------------------------------
(* Natural numbers of any size: little-endian sequences of limbs in base   *)
(* 2^24, without high zero limbs (zero is the empty sequence).             *)

Base == 2^24

\* TLC evaluates the argument of an operator where it is first used; asking
\* for the values in turn keeps the evaluations from nesting.
Ready(x) == x = x

Max(S) == CHOOSE x \in S : \A y \in S : y <= x

Min(S) == CHOOSE x \in S : \A y \in S : x <= y

\* The sequence without the `zero`s it begins with.
DropLeading(seq, zero) ==
    LET nz == {i \in 1..Len(seq) : seq[i] # zero}
    IN  IF ~Ready(seq) \/ nz = {} THEN <<>> ELSE SubSeq(seq, Min(nz), Len(seq))

Norm(a) == LET nz == {i \in 1..Len(a) : a[i] # 0}
           IN  IF nz = {} THEN <<>> ELSE SubSeq(a, 1, Max(nz))

Limb(a, i) == IF i >= 1 /\ i <= Len(a) THEN a[i] ELSE 0

\* The number of bits of a (0 for zero).
BitLen(a) == IF a = <<>> THEN 0
             ELSE 24 * (Len(a) - 1) + (CHOOSE k \in 1..24 : 2^(k - 1) <= a[Len(a)] /\ a[Len(a)] < 2^k)

\* -1, 0 or 1 as a is below, equal to or above b.
Cmp(a, b) ==
    IF Len(a) # Len(b) THEN (IF Len(a) < Len(b) THEN -1 ELSE 1)
    ELSE LET diff == {i \in 1..Len(a) : a[i] # b[i]}
         IN  IF diff = {} THEN 0
             ELSE IF a[Max(diff)] < b[Max(diff)] THEN -1 ELSE 1

\* a + b: the carry into limb i comes from a lower limb that overflows
\* through limbs that are all full.
Add(a, b) ==
    LET s(i) == Limb(a, i) + Limb(b, i)
        carry(i) == IF \E j \in 1..(i - 1) :
                          s(j) >= Base /\ \A k \in (j + 1)..(i - 1) : s(k) = Base - 1
                    THEN 1 ELSE 0
    IN  Norm([i \in 1..(Max({Len(a), Len(b)}) + 1) |-> (s(i) + carry(i)) % Base])

\* a - b for a >= b.
Sub(a, b) ==
    LET borrow(i) == IF \E j \in 1..(i - 1) :
                           a[j] < Limb(b, j) /\ \A k \in (j + 1)..(i - 1) : a[k] = Limb(b, k)
                     THEN 1 ELSE 0
    IN  Norm([i \in 1..Len(a) |-> (a[i] - Limb(b, i) - borrow(i)) % Base])

\* a * m + c for small m and c (at most 100): the low and the high parts of
\* the limbs' products, added.
MulAdd(a, m, c) ==
    LET low == [i \in 1..Len(a) |-> (a[i] * m) % Base]
        high == [i \in 1..(Len(a) + 1) |-> IF i = 1 THEN 0 ELSE (a[i - 1] * m) \div Base]
    IN  Add(Add(low, high), <<c>>)

\* a * 2^k
ShiftLeft(a, k) ==
    LET b == k % 24
        shifted == [i \in 1..(Len(a) + 1) |->
                      (Limb(a, i) % 2^(24 - b)) * 2^b + (Limb(a, i - 1) \div 2^(24 - b))]
    IN  IF a = <<>> THEN <<>> ELSE [i \in 1..(k \div 24) |-> 0] \o Norm(shifted)

\* a \div 2^k
ShiftRight(a, k) ==
    LET b == k % 24
        w == k \div 24
    IN  Norm([i \in 1..(Len(a) - w) |->
                (a[i + w] \div 2^b) + (Limb(a, i + w + 1) % 2^b) * 2^(24 - b)])

\* a \div m and a % m for small m (at most 100), over the limbs hi down to
\* lo with the remainder of the limbs above.
RECURSIVE DivSmallFrom(_, _, _, _, _)
DivSmallFrom(a, m, hi, lo, rem) ==
    CASE hi < lo -> [q |-> <<>>, r |-> rem]
      [] hi = lo -> [q |-> <<(rem * Base + a[hi]) \div m>>, r |-> (rem * Base + a[hi]) % m]
      [] hi > lo ->
            LET top == DivSmallFrom(a, m, hi, (hi + lo) \div 2 + 1, rem)
            IN  IF top.r < 0 THEN top
                ELSE LET bottom == DivSmallFrom(a, m, (hi + lo) \div 2, lo, top.r)
                     IN  [q |-> bottom.q \o top.q, r |-> bottom.r]

DivSmall(a, m) == LET d == DivSmallFrom(a, m, Len(a), 1, 0) IN [q |-> Norm(d.q), r |-> d.r]

IsOdd(a) == a # <<>> /\ a[1] % 2 = 1

\* The number written by the decimal digits lo..hi after those of acc.
RECURSIVE FromDigitsFrom(_, _, _, _)
FromDigitsFrom(digits, lo, hi, acc) ==
    CASE hi < lo -> acc
      [] hi = lo -> MulAdd(acc, 10, digits[lo])
      [] hi > lo ->
            LET left == FromDigitsFrom(digits, lo, (hi + lo) \div 2, acc)
            IN  IF Len(left) < 0 THEN left
                ELSE FromDigitsFrom(digits, (hi + lo) \div 2 + 1, hi, left)

\* The number written by a sequence of n decimal digits.
FromDigits(digits, n) == FromDigitsFrom(digits, 1, n, <<>>)

\* a * 10^k
RECURSIVE MulPow10(_, _)
MulPow10(a, k) ==
    CASE k = 0 -> a
      [] k = 1 -> MulAdd(a, 10, 0)
      [] k = 2 -> MulAdd(a, 100, 0)
      [] k > 2 -> LET half == MulPow10(a, k \div 2)
                  IN  IF Len(half) < 0 THEN half ELSE MulPow10(half, k - (k \div 2))

Pow10(k) == MulPow10(<<1>>, k)

\* The low `count` decimal digits of a, high digit first, and the rest of a.
RECURSIVE LowDigits(_, _)
LowDigits(a, count) ==
    CASE count = 1 -> LET d == DivSmall(a, 10) IN [digits |-> <<d.r>>, rest |-> d.q]
      [] count = 2 ->
            LET d == DivSmall(a, 100) IN [digits |-> <<d.r \div 10, d.r % 10>>, rest |-> d.q]
      [] count > 2 ->
            LET low == LowDigits(a, count \div 2)
            IN  IF Len(low.rest) < 0 THEN low
                ELSE LET high == LowDigits(low.rest, count - (count \div 2))
                     IN  [digits |-> high.digits \o low.digits, rest |-> high.rest]

\* The decimal digits of a, high digit first (none for zero).  A number of
\* b bits has at most 31 * b / 100 + 1 digits.
ToDigits(a) ==
    IF Ready(a) THEN DropLeading(LowDigits(a, (31 * BitLen(a)) \div 100 + 1).digits, 0) ELSE <<>>

----------------------------------------------------------------------------
(* decimal.Decimal and float, as far as parse_event uses them              *)

Digits == "0123456789"

AllDigits(text) == \A i \in 1..Len(text) : IsDigit(text[i])

DigitsOf(text) == [i \in 1..Len(text) |-> ToDecimal(text[i])]

\* Without its leading zeros.
StripZeros(text) == DropLeading(text, "0")

\* An exponent of at most 9 digits, or 10^9 for a longer one: every exponent
\* from 10^9 on has the same effect (Emax is 999999).
RECURSIVE SmallInt(_, _)
SmallInt(digits, n) == IF n = 0 THEN 0 ELSE 10 * SmallInt(digits, n - 1) + digits[n]

ExponentOf(text) == LET sig == StripZeros(text)
                    IN  IF Len(sig) > 9 THEN 10^9 ELSE SmallInt(DigitsOf(sig), Len(sig))

Invalid == [kind |-> "invalid", neg |-> FALSE, digits |-> <<>>, exp |-> 0]

\* The place of the first c of the text, or one past its end; the text
\* before that place and the text after it.
FirstOf(text, c) == Min({i \in 1..Len(text) : text[i] = c} \cup {Len(text) + 1})
Before(text, c) == SubSeq(text, 1, FirstOf(text, c) - 1)
After(text, c) == SubSeq(text, FirstOf(text, c) + 1, Len(text))

HasSign(text) == text # <<>> /\ text[1] \in {"+", "-"}
IsMinus(text) == text # <<>> /\ text[1] = "-"
Unsigned(text) == IF HasSign(text) THEN SubSeq(text, 2, Len(text)) ELSE text

\* The number with the integer part ip, the fraction fp and the exponent e.
DecimalNumber(neg, ip, fp, e) ==
    IF ip \o fp = <<>> \/ ~AllDigits(ip \o fp) THEN Invalid
    ELSE [kind |-> "num", neg |-> neg, digits |-> DigitsOf(StripZeros(ip \o fp)),
          exp |-> e - Len(fp)]

\* The bounds of the conversion, which is done in the maximum context: Emax
\* is 10^18 - 1 and Etiny is -(2 * 10^18 - 3). A number of up to 19 digits is
\* compared as <<its digit before the last 18, the next 9 digits, the last 9>>.
ExponentParts(sig) ==
    LET p == [i \in 1..19 |-> IF i <= 19 - Len(sig) THEN 0 ELSE sig[i - (19 - Len(sig))]]
    IN  <<p[1], SmallInt(SubSeq(p, 2, 10), 9), SmallInt(SubSeq(p, 11, 19), 9)>>

PartsLeq(a, b) ==
    \/ a[1] < b[1]
    \/ a[1] = b[1] /\ a[2] < b[2]
    \/ a[1] = b[1] /\ a[2] = b[2] /\ a[3] <= b[3]

\* The number of digits of the coefficient: one for zero.
CoefficientLen(ip, fp) == IF StripZeros(ip \o fp) = <<>> THEN 1 ELSE Len(StripZeros(ip \o fp))

\* The exponent with the significant digits `sig` written after "e" is
\* within the bounds: the adjusted exponent sig - frac + len - 1 is at most
\* Emax, and the exponent -sig - frac is at least Etiny.
ExponentFits(minus, sig, len, frac) ==
    IF Len(sig) > 19 THEN FALSE
    ELSE IF minus
    THEN PartsLeq(ExponentParts(sig), <<1, 999999999, 999999997 - frac>>)
    ELSE PartsLeq(ExponentParts(sig),
                  IF frac >= len THEN <<1, 0, frac - len>>
                  ELSE <<0, 999999999, 1000000000 + frac - len>>)

\* The number with the integer part ip, the fraction fp and the text
\* `etext` after its "e": a conversion that is not exact (an exponent out of
\* the bounds is clamped or rounds the coefficient) is invalid.
DecimalScaled(neg, ip, fp, etext) ==
    IF Unsigned(etext) = <<>> \/ ~AllDigits(Unsigned(etext)) \/ ip \o fp = <<>>
       \/ ~AllDigits(ip \o fp)
    THEN Invalid
    ELSE IF ~ExponentFits(IsMinus(etext),
                          DigitsOf(StripZeros(Unsigned(etext))),
                          CoefficientLen(ip, fp), Len(fp))
    THEN Invalid
    ELSE DecimalNumber(neg, ip, fp,
                       IF IsMinus(etext) THEN 0 - ExponentOf(Unsigned(etext))
                       ELSE ExponentOf(Unsigned(etext)))

\* The number with the mantissa `mant` and the text `etext` after its "e".
DecimalExponent(neg, mant, etext) ==
    DecimalScaled(neg, Before(mant, "."), After(mant, "."), etext)

\* The value of the lower-case text after the sign.
DecimalBody(neg, body) ==
    IF body = Str("inf") \/ body = Str("infinity")
    THEN [kind |-> "inf", neg |-> neg, digits |-> <<>>, exp |-> 0]
    ELSE IF Len(body) >= 3 /\ SubSeq(body, 1, 3) = Str("nan") /\ AllDigits(SubSeq(body, 4, Len(body)))
        THEN [kind |-> "nan", neg |-> neg, digits |-> <<>>, exp |-> 0]
    ELSE IF Len(body) >= 4 /\ SubSeq(body, 1, 4) = Str("snan") /\ AllDigits(SubSeq(body, 5, Len(body)))
        THEN [kind |-> "snan", neg |-> neg, digits |-> <<>>, exp |-> 0]
    ELSE IF FirstOf(body, "e") <= Len(body)
        THEN DecimalExponent(neg, Before(body, "e"), After(body, "e"))
    ELSE DecimalNumber(neg, Before(body, "."), After(body, "."), 0)

\* The value of an ASCII text without whitespace and underscores; the
\* letters of "inf", "nan" and the exponent are taken in either case.
DecimalClean(clean) == DecimalBody(IsMinus(clean), ascii_lower(Unsigned(clean)))

\* A character of the text as numeric_as_ascii writes it: an ASCII character
\* as it is, whitespace as a space, a decimal digit of any script as its
\* ASCII digit; "" for a character that makes the whole text invalid.
NumeralChar(c) ==
    CASE Ord(c) \in 1..127 -> c
      [] isspace(c) -> " "
      [] IsDigit(c) -> AsciiDigit(ToDecimal(c))
      [] OTHER -> ""

\* The text as Decimal() reads it: without the whitespace around it and
\* without underscores, in ASCII; empty when a character has no ASCII form.
numeric_as_ascii(kept) ==
    IF \E i \in 1..Len(kept) : NumeralChar(kept[i]) = "" THEN <<>>
    ELSE [i \in 1..Len(kept) |-> NumeralChar(kept[i])]

\* Decimal(text): the sign, the coefficient's digits without leading zeros
\* and the exponent of a number; an infinity; a NaN (quiet, or "snan" for a
\* signaling one); or "invalid" where Decimal raises InvalidOperation.
Decimal(text) == DecimalClean(numeric_as_ascii(SelectSeq(strip(text), LAMBDA c : c # "_")))

Precision == 28
Emax == 999999

\* The digits after the 28 kept call for rounding up: more than a half, or
\* a half next to an odd digit.
RoundsUp(keep, rest) ==
    \/ rest[1] > 5
    \/ rest[1] = 5 /\ ((\E i \in 2..Len(rest) : rest[i] # 0) \/ keep[Len(keep)] % 2 = 1)

\* The coefficient `bumped` (the kept digits plus one) in place of the digits,
\* n digits having been dropped.
RoundedUp(dec, bumped, n) ==
    IF ~Ready(bumped) THEN dec
    ELSE
    [dec EXCEPT !.digits = SubSeq(bumped, 1, Precision),
                !.exp = @ + n + (IF Len(bumped) > Precision THEN 1 ELSE 0)]

PlusOne(n) == IF Ready(n) THEN MulAdd(n, 1, 1) ELSE n

RoundDigits(dec, keep, rest) ==
    IF RoundsUp(keep, rest)
    THEN RoundedUp(dec, ToDigits(PlusOne(FromDigits(keep, Len(keep)))), Len(rest))
    ELSE [dec EXCEPT !.digits = keep, !.exp = @ + Len(rest)]

\* The coefficient rounded half-even to the context's 28 digits.
RoundToPrecision(dec) ==
    IF Len(dec.digits) <= Precision THEN dec
    ELSE RoundDigits(dec, SubSeq(dec.digits, 1, Precision),
                     SubSeq(dec.digits, Precision + 1, Len(dec.digits)))

\* The least exponent of the default context: Emin - (precision - 1), with
\* Emin = -Emax.
Etiny == 0 - Emax - (Precision - 1)

\* The quotient, or Overflow when its adjusted exponent is past Emax.
InRange(q) ==
    IF q.exp + Len(q.digits) - 1 > Emax
    THEN Raise("[<class 'decimal.Overflow'>]")
    ELSE Return(q)

\* The coefficient cut at 10^Etiny and rounded half-even: `keep` are the
\* digits from 10^Etiny up, `rest` the digits below.
Subnormal(q, keep, rest) ==
    IF RoundsUp(<<0>> \o keep, rest)
    THEN [q EXCEPT !.digits = ToDigits(PlusOne(FromDigits(keep, Len(keep)))), !.exp = Etiny]
    ELSE [q EXCEPT !.digits = keep, !.exp = Etiny]

\* A quotient whose exponent is below Etiny: Underflow is not trapped, the
\* result is the subnormal number or the zero nearest to it.
Underflowed(q, n) ==
    IF Etiny - q.exp > n THEN [q EXCEPT !.digits = <<>>, !.exp = Etiny]
    ELSE Subnormal(q, SubSeq(q.digits, 1, n - (Etiny - q.exp)),
                   SubSeq(q.digits, n - (Etiny - q.exp) + 1, n))

\* The exact quotient q brought into the context: a zero keeps its sign and
\* has its exponent clamped into Etiny..Emax; a number below 10^Emin is
\* subnormal; any other is rounded to the precision and must not pass Emax.
Finalized(q) ==
    IF q.digits = <<>> THEN Return([q EXCEPT !.exp = Max({Etiny, Min({Emax, @})})])
    ELSE IF q.exp + Len(q.digits) - 1 < 0 - Emax
    THEN Return(IF q.exp < Etiny THEN Underflowed(q, Len(q.digits)) ELSE q)
    ELSE InRange(RoundToPrecision(q))

\* The number of zeros that end the digits.
TrailingZeros(digits) ==
    Len(digits) - Max({0} \cup {i \in 1..Len(digits) : digits[i] # 0})

\* The exact quotient of the coefficient `r` by a divisor of k zeros, m
\* trailing zeros dropped to come as near the ideal exponent as the division
\* allows (it works on precision + 2 digits).
Shortened(r, d, m) ==
    [r EXCEPT !.digits = SubSeq(@, 1, Len(@) - m), !.exp = @ - d + m]

ScaledDown(r, d, k, tz) ==
    IF r.digits = <<>> THEN [r EXCEPT !.exp = @ - (d - k)]
    ELSE IF tz < Len(r.digits) - (Precision + 2) THEN [r EXCEPT !.exp = @ - d]
    ELSE Shortened(r, d, Min({tz, Max({k, Len(r.digits) - (Precision + 2)})}))

\* dec / Decimal(10) ** d in the default context: the quotient, or
\* InvalidOperation for a signaling NaN, or Overflow past Emax. The divisor
\* is 10^d rounded to the precision: a coefficient of min(d, 27) zeros.
DivPow10(dec, d) ==
    IF dec.kind = "snan" THEN Raise("[<class 'decimal.InvalidOperation'>]")
    ELSE IF dec.kind # "num" THEN Return(dec)
    ELSE Finalized(ScaledDown(dec, d, Min({d, Precision - 1}), TrailingZeros(dec.digits)))

\* A float: an infinity, a NaN, or (-1)^neg * m * 2^e with m odd, or m zero.
FloatZero(neg) == [kind |-> "finite", neg |-> neg, m |-> <<>>, e |-> 0]
FloatInf(neg) == [kind |-> "inf", neg |-> neg, m |-> <<>>, e |-> 0]
FloatNan == [kind |-> "nan", neg |-> FALSE, m |-> <<>>, e |-> 0]

\* The lowest set bit of a non-zero number.
LowBit(a) == LET i == CHOOSE j \in 1..Len(a) : a[j] # 0 /\ \A k \in 1..(j - 1) : a[k] = 0
                 b == CHOOSE j \in 0..23 : a[i] % 2^(j + 1) # 0 /\ a[i] % 2^j = 0
             IN  24 * (i - 1) + b

\* The quotient bits 2^hi down to 2^lo of rem / den, added to quo.
RECURSIVE DivLoop(_, _, _, _, _)
DivLoop(rem, den, hi, lo, quo) ==
    CASE hi < lo -> [q |-> quo, r |-> rem]
      [] hi = lo ->
            IF Cmp(rem, ShiftLeft(den, hi)) >= 0
            THEN [q |-> Add(quo, ShiftLeft(<<1>>, hi)), r |-> Sub(rem, ShiftLeft(den, hi))]
            ELSE [q |-> quo, r |-> rem]
      [] hi > lo ->
            LET top == DivLoop(rem, den, hi, (hi + lo + 1) \div 2, quo)
            IN  IF Len(top.r) < 0 THEN top
                ELSE DivLoop(top.r, den, (hi + lo + 1) \div 2 - 1, lo, top.q)

\* The float (-1)^neg * m * 2^s, with m made odd.
FloatOf(neg, m, s) ==
    IF ~Ready(m) \/ m = <<>> THEN FloatZero(neg)
    ELSE IF BitLen(m) + s > 1024 THEN FloatInf(neg)
    ELSE [kind |-> "finite", neg |-> neg, m |-> ShiftRight(m, LowBit(m)), e |-> s + LowBit(m)]

\* The quotient d.q rounded to the nearest, ties to even, by the remainder
\* d.r of the division by den.
RoundQuotient(d, den) ==
    IF ~Ready(d) THEN <<>>
    ELSE IF Cmp(ShiftLeft(d.r, 1), den) > 0 \/ (Cmp(ShiftLeft(d.r, 1), den) = 0 /\ IsOdd(d.q))
    THEN Add(d.q, <<1>>) ELSE d.q

\* num / den rounded to a whole number m, and the float m * 2^s.
FloatDivided(neg, num, den, s) ==
    IF Ready(num) /\ Ready(den)
    THEN FloatOf(neg, RoundQuotient(DivLoop(num, den, 52, 0, <<>>), den), s)
    ELSE FloatZero(neg)

\* The float nearest to p / q, 2^s being the spacing of the doubles around it.
FloatSpaced(neg, p, q, s) ==
    FloatDivided(neg, IF s >= 0 THEN p ELSE ShiftLeft(p, 0 - s),
                      IF s >= 0 THEN ShiftLeft(q, s) ELSE q, s)

\* The exponent of the leading bit of p / q, l being the difference of the
\* bit lengths of p and q.
LeadingBit(p, q, l) ==
    IF (IF l >= 0 THEN Cmp(p, ShiftLeft(q, l)) >= 0 ELSE Cmp(ShiftLeft(p, 0 - l), q) >= 0)
    THEN l ELSE l - 1

\* The spacing of the doubles whose leading bit has the exponent e (2^-1074
\* among the subnormals).
Spacing(e) == IF e - 52 > -1074 THEN e - 52 ELSE -1074

FloatRatio(neg, p, q) ==
    IF Ready(p) /\ Ready(q)
    THEN FloatSpaced(neg, p, q, Spacing(LeadingBit(p, q, BitLen(p) - BitLen(q))))
    ELSE FloatZero(neg)

\* The float nearest to n * 10^exp.
FloatScaled(neg, n, exp) ==
    IF ~Ready(n) THEN FloatZero(neg)
    ELSE IF exp >= 0 THEN FloatRatio(neg, MulPow10(n, exp), <<1>>)
    ELSE FloatRatio(neg, n, Pow10(0 - exp))

\* float(dec): the double nearest to the decimal, ties to even.
ToFloat(dec) ==
    IF dec.kind = "inf" THEN FloatInf(dec.neg)
    ELSE IF dec.kind = "nan" THEN FloatNan
    ELSE IF dec.digits = <<>> THEN FloatZero(dec.neg)
    ELSE IF dec.exp + Len(dec.digits) - 1 >= 309 THEN FloatInf(dec.neg)
    ELSE IF dec.exp + Len(dec.digits) - 1 <= -325 THEN FloatZero(dec.neg)
    ELSE FloatScaled(dec.neg, FromDigits(dec.digits, Len(dec.digits)), dec.exp)

\* n / 2^k rounded to the nearest whole number, ties to even.
HalfEven(n, k) ==
    IF /\ IsOdd(ShiftRight(n, k - 1))
       /\ (Cmp(ShiftLeft(ShiftRight(n, k - 1), k - 1), n) # 0 \/ IsOdd(ShiftRight(n, k)))
    THEN Add(ShiftRight(n, k), <<1>>)
    ELSE ShiftRight(n, k)

\* The hundredths of x, rounded: n is 100 times the odd part of x.
Hundredths(x, n) == IF ~Ready(n) THEN n ELSE IF x.e >= 0 THEN ShiftLeft(n, x.e) ELSE HalfEven(n, 0 - x.e)

\* The digits of the hundredths, at least three of them, with the commas of
\* the integer part and the point.
Grouped(padded) ==
    LET ilen == Len(padded) - 2
        digit(i) == SubSeq(Digits, padded[i] + 1, padded[i] + 1)
        pieces == [i \in 1..Len(padded) |->
                     IF i > 1 /\ i <= ilen /\ (ilen - i + 1) % 3 = 0 THEN <<",", digit(i)>>
                     ELSE IF i = ilen + 1 THEN <<".", digit(i)>>
                     ELSE <<digit(i)>>]
    IN  IF Ready(padded) THEN Concat(pieces, 1, Len(pieces)) ELSE <<>>

PadToThree(ds) == IF ~Ready(ds) THEN ds ELSE [i \in 1..(3 - Len(ds)) |-> 0] \o ds

\* format(x, ",.2f"): x rounded half-even to hundredths, the integer part in
\* groups of three.
Format2f(x) ==
    IF x.kind = "nan" THEN Str("nan")
    ELSE IF x.kind = "inf" THEN (IF x.neg THEN Str("-inf") ELSE Str("inf"))
    ELSE (IF x.neg THEN <<"-">> ELSE <<>>)
         \o Grouped(PadToThree(ToDigits(Hundredths(x, MulAdd(x.m, 100, 0)))))

----------------------------------------------------------------------------
(* TonDecoder.parse_event                                                  *)

\* str(n) for an integer.
RECURSIVE NatText(_)
NatText(n) == IF n < 10 THEN <<SubSeq(Digits, n + 1, n + 1)>>
              ELSE Append(NatText(n \div 10), SubSeq(Digits, (n % 10) + 1, (n % 10) + 1))

\* str(v), as str() and the f-strings give it.
PyText(v) == CASE v.k = "str" -> v.s
               [] v.k = "float" -> v.s
               [] v.k = "int" -> IF v.n < 0 THEN <<"-">> \o NatText(0 - v.n) ELSE NatText(v.n)
               [] v.k = "list" -> Str("[]")
               [] v.k = "dict" -> Str("{}")
               [] OTHER -> Str("None")

\* The digits of an integer's text: digits with single underscores between.
IsIntBody(body) ==
    /\ body # <<>> /\ IsDigit(body[1]) /\ IsDigit(body[Len(body)])
    /\ \A i \in 1..Len(body) : IsDigit(body[i]) \/ body[i] = "_"
    /\ \A i \in 1..(Len(body) - 1) : ~(body[i] = "_" /\ body[i + 1] = "_")

\* A character of the text as int() reads it: an ASCII character as it is,
\* whitespace outside ASCII as a space, a decimal digit of any script as its
\* ASCII digit, any other character as "?".
IntegerChar(c) ==
    CASE Ord(c) < 127 -> c
      [] isspace(c) -> " "
      [] IsDigit(c) -> AsciiDigit(ToDecimal(c))
      [] OTHER -> "?"

\* _PyUnicode_TransformDecimalAndSpaceToASCII (the text after a "?" is cut
\* off there; int() rejects the text with it or without it).
TransformDecimalAndSpaceToASCII(text) == [i \in 1..Len(text) |-> IntegerChar(text[i])]

\* The whitespace int() passes over around the ASCII text (Py_ISSPACE).
IsAsciiSpace(c) == Ord(c) \in (9..13) \cup {32}

\* The ASCII text without the whitespace around it.
strip_ascii(ascii) == Trim(ascii, {i \in 1..Len(ascii) : ~IsAsciiSpace(ascii[i])})

\* The longest run of digits int() converts (sys.get_int_max_str_digits()).
MaxStrDigits == 4300

\* The integer written by the digits after the sign; an integer of more than
\* 9 digits is given as 10^9.
IntOfDigits(neg, digits) ==
    IF Len(digits) > MaxStrDigits THEN Raise("ValueError")
    ELSE Return(IF neg THEN 0 - ExponentOf(digits) ELSE ExponentOf(digits))

\* int() of an ASCII text without whitespace around it.
IntOfAscii(ascii) ==
    IF ~IsIntBody(Unsigned(ascii)) THEN Raise("ValueError")
    ELSE IntOfDigits(IsMinus(ascii), SelectSeq(Unsigned(ascii), IsDigit))

\* int(text): a decimal integer with an optional sign, single underscores
\* between its digits and whitespace around it.
IntOfText(text) == IntOfAscii(strip_ascii(TransformDecimalAndSpaceToASCII(text)))

\* The digits of the whole part of a decimal number.
WholePart(dec) ==
    IF dec.digits = <<>> THEN <<>>
    ELSE IF dec.exp >= 0 THEN dec.digits \o [i \in 1..dec.exp |-> 0]
    ELSE SubSeq(dec.digits, 1, Len(dec.digits) + dec.exp)

\* The whole part of a decimal number, towards zero; a part of more than 9
\* digits is given as 10^9.
Truncated(dec) ==
    LET n == IF Len(WholePart(dec)) > 9 THEN 10^9
             ELSE SmallInt(WholePart(dec), Len(WholePart(dec)))
    IN  IF dec.neg THEN 0 - n ELSE n

\* The decimal number is whole.
IsWhole(dec) ==
    dec.exp >= 0 \/ \A i \in (Len(dec.digits) + dec.exp + 1)..Len(dec.digits) :
                        i < 1 \/ dec.digits[i] = 0

\* int(x) for a float x given by its str(): the float's whole part.  The
\* shortest text that reads back as x has the whole part of x.
IntOfFloat(dec) ==
    CASE dec.kind = "nan" -> Raise("ValueError")
      [] dec.kind = "inf" -> Raise("OverflowError")
      [] OTHER -> Return(Truncated(dec))

\* int(v): the integer, or the class of the exception raised.
PyIntOf(v) ==
    CASE v.k = "int" -> Return(v.n)
      [] v.k = "str" -> IntOfText(v.s)
      [] v.k = "float" -> IntOfFloat(Decimal(v.s))
      [] OTHER -> Raise("TypeError")

\* a == b for two floats given by their str(): a NaN equals nothing, the two
\* zeros are equal, and any other float equals itself alone.
FloatEq(a, b) ==
    /\ a # Str("nan") /\ b # Str("nan")
    /\ (a = b \/ {a, b} \subseteq {Str("0.0"), Str("-0.0")})

\* n == x for an integer n and a float x given by its str(): x is whole and
\* has the digits and the sign of n.
IntFloatEq(n, dec) ==
    /\ dec.kind = "num" /\ IsWhole(dec)
    /\ WholePart(dec) = (IF n = 0 THEN <<>> ELSE DigitsOf(NatText(IF n < 0 THEN 0 - n ELSE n)))
    /\ (n # 0 => dec.neg = (n < 0))

\* a == b of Python: numbers by their value, any other value by its type and
\* its content.
PyEq(a, b) ==
    CASE a.k = "float" /\ b.k = "float" -> FloatEq(a.s, b.s)
      [] a.k = "int" /\ b.k = "float" -> IntFloatEq(a.n, Decimal(b.s))
      [] a.k = "float" /\ b.k = "int" -> IntFloatEq(b.n, Decimal(a.s))
      [] OTHER -> a = b

OPCODES == <<
    <<Str("0x00000000"),
      <<"U+00F0", "U+0178", "U+2019", "U+00AC">> \o Str(" Text Comment")>>,
    <<Str("0xf8a7ea5"),
      <<"U+00F0", "U+0178", "U+2019", "U+00B8">> \o Str(" Jetton Transfer")>>,
    <<Str("0x178d4519"),
      <<"U+00F0", "U+0178", "U+2019", "U+00B3">> \o Str(" Jetton Internal Transfer")>>,
    <<Str("0x5fcc3d14"),
      <<"U+00F0", "U+0178", "U+2013", "U+00BC">> \o Str(" NFT Transfer")>>,
    <<Str("0x05138d91"),
      <<"U+00F0", "U+0178", "U+2019", "U+017D">> \o Str(" SFX Deposit")>>,
    <<Str("0xd53276db"),
      <<"U+00F0", "U+0178", "U+201D", "U+2122">> \o Str(" Excesses (Cashback)")>>,
    <<Str("0xea06185d"),
      <<"U+00F0", "U+0178", "U+2019", "U+017D">> \o Str(" Jetton Mint")>>,
    <<Str("0x595f07bc"),
      <<"U+00F0", "U+0178", "U+201D", "U+00A5">> \o Str(" Jetton Burn")>>,
    <<Str("0x88e2c913"),
      <<"U+00E2", "U+0161", "U+00A1", "U+00EF", "U+00B8">> \o Str(" Swap (DeDust/STON)")>>,
    <<Str("0x25938561"),
      <<"U+00F0", "U+0178", "U+00A6">> \o Str(" Stake / Add Liquidity")>> >>

SentLabel == <<"U+00F0", "U+0178", "U+2019", "U+00B8">> \o Str(" Sent ")
ReceivedLabel == <<"U+00F0", "U+0178", "U+2019", "U+00B0">> \o Str(" Received ")
DeployLabel == <<"U+00F0", "U+0178", "U+2014">> \o Str(" Contract Deploy")
ExecLabel == <<"U+00E2", "U+0161", "U+2122", "U+00EF", "U+00B8">> \o Str(" ")
ScamSuffix == Str(" (") \o <<"U+00E2", "U+0161", "U+00A0", "U+00EF", "U+00B8">>
              \o Str(" SUSPICIOUS - DO NOT INTERACT)")

ScamWords == {Str("claim"), Str("gift"), Str("subs"), Str("free"), Str("voucher")}

TonDecimals == 9
DefaultDecimals == 9
MaxDecimals == 30

\* The result parse_event starts from.
DefaultResult ==
    [action |-> Str("Unknown"), direction |-> "neutral",
     description |-> Str("Blockchain interaction"), is_scam_risk |-> FALSE,
     sender |-> PyStr(Str("Unknown")), amount |-> FloatZero(FALSE),
     currency |-> PyStr(Str("TON"))]

\* An exception leaves the try block with the result as built so far.
RaiseWith(res, exc) == [raised |-> TRUE, exc |-> exc, value |-> res]

NoGet(v) == "'" \o TypeName(v) \o "' object has no attribute 'get'"

\* container.get(key, {}).get(...) reads the entry of a dict, takes an absent
\* container as the empty dict, and fails on any other value.
Entry(container, value) == IF container.k = "dict" THEN value ELSE PyAbsent

OrDefault(value, default) == IF value.k = "absent" THEN default ELSE value

\* float(quotient), with the handler of InvalidOperation that gives 0.0;
\* Overflow is not handled.
FloatOfQuotient(quo) ==
    IF quo.raised
    THEN (IF quo.exc = "[<class 'decimal.InvalidOperation'>]" THEN Return(FloatZero(FALSE)) ELSE quo)
    ELSE Return(ToFloat(quo.value))

\* float(dec / Decimal(10) ** decimals), 0.0 when the text was no number.
Converted(dec, decimals) ==
    IF dec.kind = "invalid" THEN Return(FloatZero(FALSE))
    ELSE FloatOfQuotient(DivPow10(dec, decimals))

\* float(Decimal(str(raw)) / Decimal(10) ** decimals), with the handler of
\* (ValueError, InvalidOperation) that gives 0.0.
amount_of(raw, decimals) ==
    Converted(Decimal(PyText(OrDefault(raw, PyInt(0)))), decimals)

\* The decoded comment, or the raw text filtered of its non-printable
\* characters when the decoder gave nothing.
OrPrintable(dec, raw_comment) ==
    IF dec # <<>> THEN dec ELSE printable(PyText(raw_comment))

\* The comment of a TonTransfer: the decoder first, the plain text next.
comment_of(raw_comment) ==
    IF ~Truthy(raw_comment) THEN <<>>
    ELSE OrPrintable(decode_base64_comment(raw_comment).value, raw_comment)

\* tr.get("sender", {}).get("address", "")
SenderOf(act) == OrDefault(Entry(Entry(act.payload, act.sender), act.address), PyStr(<<>>))

\* The result of a TonTransfer with its comment, sender and amount.
ton_result(res, wallet, comment, sender, amount) ==
    IF amount.raised THEN RaiseWith(res, amount.exc)
    ELSE Return([res EXCEPT
            !.sender = sender,
            !.amount = amount.value,
            !.direction = IF PyEq(sender, wallet) THEN "out" ELSE "in",
            !.action = (IF PyEq(sender, wallet) THEN SentLabel ELSE ReceivedLabel) \o Str("TON"),
            !.description = IF comment # <<>> THEN Str("Comment: ") \o comment
                            ELSE Str("Direct Transfer")])

\* --- 1. TON TRANSFER ---
ton_transfer(res, act, wallet) ==
    IF act.payload.k \notin {"dict", "absent"} THEN RaiseWith(res, NoGet(act.payload))
    ELSE IF Entry(act.payload, act.sender).k \notin {"dict", "absent"}
        THEN RaiseWith(res, NoGet(Entry(act.payload, act.sender)))
    ELSE ton_result(res, wallet, comment_of(Entry(act.payload, act.comment)), SenderOf(act),
                    amount_of(Entry(act.payload, act.amount), TonDecimals))

\* The count n when it is in 0..30, else 9; the handler of (ValueError,
\* TypeError) gives 9 and lets any other exception through.
Capped(n) ==
    IF n.raised
    THEN (IF n.exc \in {"ValueError", "TypeError"} THEN Return(DefaultDecimals)
          ELSE Raise("cannot convert float infinity to integer"))
    ELSE IF 0 <= n.value /\ n.value <= MaxDecimals THEN n ELSE Return(DefaultDecimals)

\* The decimal count of a jetton: int(raw) when that is in 0..30, else 9.
decimals_of(raw) == Capped(PyIntOf(raw))

\* jt.get("jetton", {})
JettonOf(act) == Entry(act.payload, act.jetton)

\* jt.get("jetton", {}).get("symbol", "TOKEN")
SymbolOf(act) == OrDefault(Entry(JettonOf(act), act.symbol), PyStr(Str("TOKEN")))

\* Scam Heuristics: symbol.lower() fails on a symbol that is no text.
jetton_flagged(set, symbol) ==
    IF symbol.k # "str"
    THEN RaiseWith(set, "'" \o TypeName(symbol) \o "' object has no attribute 'lower'")
    ELSE IF \E x \in ScamWords : Contains(lower(symbol.s), x)
        THEN Return([set EXCEPT !.is_scam_risk = TRUE, !.description = @ \o ScamSuffix])
    ELSE Return(set)

\* The result of a JettonTransfer with its sender, symbol and amount.
jetton_result(res, wallet, sender, symbol, real_amt) ==
    IF real_amt.raised THEN RaiseWith(res, real_amt.exc)
    ELSE jetton_flagged(
            [res EXCEPT
                !.currency = symbol,
                !.amount = real_amt.value,
                !.sender = sender,
                !.direction = IF PyEq(sender, wallet) THEN "out" ELSE "in",
                !.action = (IF PyEq(sender, wallet) THEN SentLabel ELSE ReceivedLabel) \o PyText(symbol),
                !.description = Str("Volume: ") \o Format2f(real_amt.value) \o Str(" ")
                                \o PyText(symbol)],
            symbol)

\* The JettonTransfer once its decimal count is known.
jetton_counted(res, act, wallet, decimals) ==
    IF decimals.raised THEN RaiseWith(res, decimals.exc)
    ELSE jetton_result(res, wallet, SenderOf(act), SymbolOf(act),
                       amount_of(Entry(act.payload, act.amount), decimals.value))

\* --- 2. JETTON TRANSFER ---
jetton_transfer(res, act, wallet) ==
    IF act.payload.k \notin {"dict", "absent"} THEN RaiseWith(res, NoGet(act.payload))
    ELSE IF Entry(act.payload, act.sender).k \notin {"dict", "absent"}
        THEN RaiseWith(res, NoGet(Entry(act.payload, act.sender)))
    ELSE IF JettonOf(act).k \notin {"dict", "absent"} THEN RaiseWith(res, NoGet(JettonOf(act)))
    ELSE jetton_counted(res, act, wallet,
            decimals_of(OrDefault(Entry(JettonOf(act), act.decimals), PyInt(DefaultDecimals))))

\* --- 3. CONTRACT DEPLOY ---
contract_deploy(res) ==
    Return([res EXCEPT !.action = DeployLabel,
                       !.description = Str("New wallet initialized")])

\* --- 4. SMART CONTRACT EXEC ---
smart_contract_exec(res, act) ==
    LET ex == act.payload
        op_code == OrDefault(Entry(ex, act.operation), PyStr(Str("Unknown")))
        known == {i \in 1..Len(OPCODES) : op_code.k = "str" /\ OPCODES[i][1] = op_code.s}
        op_name == IF known = {} THEN Str("Call Contract")
                   ELSE OPCODES[CHOOSE i \in known : TRUE][2]
    IN  IF ex.k \notin {"dict", "absent"} THEN RaiseWith(res, NoGet(ex))
        ELSE IF op_code.k \in {"list", "dict"}
            THEN RaiseWith(res, "unhashable type: '" \o TypeName(op_code) \o "'")
        ELSE Return([res EXCEPT !.action = ExecLabel \o op_name,
                                !.description = Str("OpCode: ") \o PyText(op_code)])

IsType(act, name) == act.type.k = "str" /\ act.type.s = Str(name)

\* The branch of the primary action, by its type.
parse_action(res, act, wallet) ==
    IF act.self.k # "dict" THEN RaiseWith(res, NoGet(act.self))
    ELSE CASE IsType(act, "TonTransfer") -> ton_transfer(res, act, wallet)
           [] IsType(act, "JettonTransfer") -> jetton_transfer(res, act, wallet)
           [] IsType(act, "ContractDeploy") -> contract_deploy(res)
           [] IsType(act, "SmartContractExec") -> smart_contract_exec(res, act)
           [] OTHER -> Return(res)

\* `actions` is no list: a value that is not true returns the default
\* result; actions[0] fails on a number and gives a character, which has no
\* get, on a text.
not_a_list(res, actions) ==
    IF ~Truthy(actions) THEN Return(res)
    ELSE CASE actions.k = "int" -> RaiseWith(res, "'int' object is not subscriptable")
           [] actions.k = "float" -> RaiseWith(res, "'float' object is not subscriptable")
           [] OTHER -> RaiseWith(res, NoGet(actions))

\* The body of the try block taking the last action for the first.
parse_try_last_action(event, wallet) ==
    IF event.self.k # "dict" THEN RaiseWith(DefaultResult, NoGet(event.self))
    ELSE IF Entry(event.self, event.actions).k # "list"
        THEN not_a_list(DefaultResult, Entry(event.self, event.actions))
    ELSE IF event.items = <<>> THEN Return(DefaultResult)
    ELSE parse_action(DefaultResult, event.items[Len(event.items)], wallet)

\* The body of the try block.
parse_try(event, wallet) ==
    IF event.self.k # "dict" THEN RaiseWith(DefaultResult, NoGet(event.self))
    ELSE IF Entry(event.self, event.actions).k # "list"
        THEN not_a_list(DefaultResult, Entry(event.self, event.actions))
    ELSE IF event.items = <<>> THEN Return(DefaultResult)
    ELSE parse_action(DefaultResult, event.items[1], wallet)

\* parse_event without its except clause.
parse_event_unguarded(event, wallet) == parse_try(event, wallet)

\* except Exception as e: result["description"] = f"Error parsing: {str(e)}"
handled(r) ==
    IF r.raised
    THEN Return([r.value EXCEPT !.description = Str("Error parsing: ") \o Str(r.exc)])
    ELSE r

parse_event(event, wallet) == handled(parse_try(event, wallet))

----------------------------------------------------------------------------
(* Events given to parse_event                                             *)

\* An action as the JSON gives it: the entry itself, its "type", the payload
\* entry named after the type, and the fields read from the payload.
Action(type, payload) ==
    [self |-> PyDict, type |-> type, payload |-> payload,
     sender |-> PyAbsent, address |-> PyAbsent, amount |-> PyAbsent,
     comment |-> PyAbsent, jetton |-> PyAbsent, symbol |-> PyAbsent,
     decimals |-> PyAbsent, operation |-> PyAbsent]

\* An entry of `actions` that is not a dict.
NotAnAction(v) == [Action(PyAbsent, PyAbsent) EXCEPT !.self = v]

TonAction(address, amount, comment) ==
    [Action(PyStr(Str("TonTransfer")), PyDict) EXCEPT
        !.sender = PyDict, !.address = address, !.amount = amount, !.comment = comment]

JettonAction(address, amount, symbol, decimals) ==
    [Action(PyStr(Str("JettonTransfer")), PyDict) EXCEPT
        !.sender = PyDict, !.address = address, !.amount = amount,
        !.jetton = PyDict, !.symbol = symbol, !.decimals = decimals]

ExecAction(operation) ==
    [Action(PyStr(Str("SmartContractExec")), PyDict) EXCEPT !.operation = operation]

DeployAction == Action(PyStr(Str("ContractDeploy")), PyAbsent)

\* {"actions": [...]}
Event(items) == [self |-> PyDict, actions |-> PyList, items |-> items]

\* An event whose "actions" is absent or is not a list, and a value that is
\* not an event.
EventWith(actions) == [self |-> PyDict, actions |-> actions, items |-> <<>>]
NotAnEvent(v) == [self |-> v, actions |-> PyAbsent, items |-> <<>>]

\* Bounds of the events.
MaxActions == 3
MaxRawAmount == 12

Addresses == {PyStr(Str("A")), PyStr(Str("B"))}

\* Addresses that are numbers.
NumberAddresses == {PyFloat(Str("nan")), PyInt(1), PyFloat(Str("-0.0"))}

Comments ==
    {PyAbsent, PyNone, PyStr(Str("https://evil.com")), PyStr(Str("plain text")),
     PyStr(B64Enc(Str("hello"))), PyStr(B64Enc(Str("see http://a.b"))),
     PyStr(<<"a", "U+000A">> \o Str("http://b")), PyInt(7), PyFloat(Str("0.0")),
     PyFloat(Str("1.5"))}

Symbols ==
    {PyAbsent, PyStr(Str("USDT")), PyStr(Str("FREE-GIFT")), PyStr(Str("Claim")),
     PyStr(Str("https://x.io")), PyInt(5), PyFloat(Str("1.5")),
     PyStr(<<"G", "U+0130", "F", "T">>), PyStr(<<"U+0391", "U+03A3">> \o Str(" FREE")),
     PyStr(<<"U+0410", "U+03A3", "a">>)}

DecimalCounts ==
    {PyAbsent, PyNone, PyInt(0 - 1), PyInt(0), PyInt(9), PyInt(30), PyInt(31), PyInt(1000),
     PyStr(Str("18")), PyStr(Str(" 3 ")), PyStr(Str("1_0")), PyStr(Str("abc")),
     PyStr(Str("3.0")), PyFloat(Str("nan")), PyFloat(Str("inf")), PyList,
     PyStr(<<"U+0663">>), PyStr(<<"U+FF11", "U+FF18">>), PyStr(<<"U+001F", "6">>),
     PyStr(<<"U+00A0", "6", "U+2003">>), PyFloat(Str("6.0")), PyFloat(Str("2.5")),
     PyFloat(Str("-0.5")), PyFloat(Str("1e+22")), PyFloat(Str("-inf"))}

\* The counts met with every symbol.
CommonCounts ==
    {PyAbsent, PyInt(9), PyInt(1000), PyStr(Str("18")), PyFloat(Str("inf")), PyStr(Str("abc"))}

Scales == {PyInt(0), PyInt(1), PyInt(2), PyInt(9), PyInt(18), PyInt(30)}

RawAmounts ==
    {PyAbsent, PyNone, PyInt(1000000000), PyStr(Str("1000000000")), PyStr(Str("abc")),
     PyStr(Str("1E+1000010")), PyStr(Str("-5")), PyStr(<<"U+0661", "U+0662">>),
     PyStr(<<"U+001C", "7">>), PyFloat(Str("2.5"))}

\* Amounts whose exponent is at the bounds of the conversion.
ExponentAmounts ==
    {PyStr(Str("10e999999999999999999")), PyStr(Str("1e999999999999999999")),
     PyStr(Str("0.1e1000000000000000000")), PyStr(Str("-1e-1000000000000000000")),
     PyStr(Str("1e-1999999999999999997")), PyStr(Str("1e-1999999999999999998"))}

WholeAmounts ==
    { PyStr(NatText(n)) : n \in 0..MaxRawAmount }
    \cup { PyStr(Str("1000000000")), PyStr(Str("1500000000")), PyStr(Str("123456789")),
           PyStr(Str("20000000000000000000")), PyStr(Str("999999999999999999")),
           PyStr(Str("9007199254740993")), PyStr(Str("1234567890123456789012345678")),
           PyStr(Str("5000000000000000000000000000000")) }

Operations ==
    { PyStr(OPCODES[i][1]) : i \in 1..Len(OPCODES) }
    \cup {PyAbsent, PyNone, PyStr(Str("0xdeadbeef")), PyStr(Str("http://a.b")), PyInt(5), PyList}

TonActions ==
    { TonAction(a, n, c) : a \in Addresses \cup {PyAbsent}, n \in RawAmounts, c \in Comments }
    \cup { TonAction(a, PyStr(Str("1000000000")), PyAbsent) : a \in NumberAddresses }
    \cup { TonAction(PyStr(Str("A")), n, PyAbsent) : n \in ExponentAmounts }

JettonActions ==
    { JettonAction(a, n, s, d) : a \in Addresses,
          n \in {PyStr(Str("1000000000")), PyStr(Str("1E+1000010"))},
          s \in Symbols, d \in CommonCounts }
    \cup { JettonAction(PyStr(Str("A")), PyStr(Str("1500000")), s, d) :
               s \in {PyStr(Str("USDT")), PyStr(Str("FREE-GIFT"))}, d \in DecimalCounts }
    \cup { JettonAction(a, PyStr(<<"U+FF11", "U+FF12">> \o Str("00000000")), PyStr(Str("USDT")), d) :
               a \in NumberAddresses, d \in {PyInt(9), PyInt(0)} }
    \cup { JettonAction(PyStr(Str("A")), n, PyStr(Str("USDT")), d) : n \in WholeAmounts, d \in Scales }
    \cup { JettonAction(PyStr(Str("A")), n, PyStr(Str("free")), PyInt(6)) :
               n \in RawAmounts \cup ExponentAmounts }

\* Actions whose payload, sender or jetton entry is missing, null or of the
\* wrong type, and actions of an unknown or missing type.
MalformedActions ==
    LET ton == TonAction(PyStr(Str("A")), PyStr(Str("1")), PyAbsent)
        jet == JettonAction(PyStr(Str("A")), PyStr(Str("1")), PyStr(Str("FREE-GIFT")), PyInt(9))
    IN  { [a EXCEPT !.payload = v] : a \in {ton, jet, ExecAction(PyAbsent)},
                                     v \in {PyAbsent, PyNone, PyInt(5), PyStr(Str("x"))} }
        \cup { [a EXCEPT !.sender = v] : a \in {ton, jet}, v \in {PyAbsent, PyNone, PyStr(Str("A"))} }
        \cup { [jet EXCEPT !.jetton = v] : v \in {PyAbsent, PyNone, PyList} }
        \cup { Action(t, PyAbsent) : t \in {PyAbsent, PyNone, PyInt(1), PyStr(Str("NftTransfer")),
                                            PyStr(Str("tontransfer"))} }
        \cup { NotAnAction(v) : v \in {PyNone, PyInt(5), PyStr(Str("TonTransfer")), PyList} }

FirstActions ==
    TonActions \cup JettonActions \cup MalformedActions
    \cup { ExecAction(o) : o \in Operations } \cup {DeployAction}

\* Actions that follow the first one.
LaterActions ==
    { JettonAction(PyStr(Str("A")), PyStr(Str("1")), PyStr(Str("FREE-GIFT")), PyInt(9)),
      TonAction(PyStr(Str("B")), PyStr(Str("7")), PyStr(Str("https://evil.com"))),
      NotAnAction(PyNone) }

RECURSIVE SeqsUpTo(_, _)
SeqsUpTo(S, n) ==
    IF n = 0 THEN {<<>>}
    ELSE LET shorter == SeqsUpTo(S, n - 1)
         IN  shorter \cup { <<x>> \o t : x \in S, t \in shorter }

LedActions ==
    { TonAction(PyStr(Str("A")), PyStr(Str("1000000000")), PyStr(Str("plain text"))),
      JettonAction(PyStr(Str("B")), PyStr(Str("1000000000")), PyStr(Str("USDT")), PyInt(9)),
      JettonAction(PyStr(Str("A")), PyStr(Str("1")), PyStr(Str("Claim")), PyFloat(Str("inf"))),
      ExecAction(PyStr(Str("0xf8a7ea5"))), DeployAction,
      Action(PyStr(Str("NftTransfer")), PyAbsent), Action(PyAbsent, PyAbsent),
      NotAnAction(PyNone) }

Events ==
    { Event(<<a>>) : a \in FirstActions }
    \cup { Event(<<a>> \o t) : a \in LedActions, t \in SeqsUpTo(LaterActions, MaxActions - 1) }
    \cup { EventWith(v) : v \in {PyAbsent, PyNone, PyList, PyInt(0), PyInt(5), PyStr(<<>>),
                                 PyStr(Str("ab")), PyFloat(Str("inf")), PyFloat(Str("0.0"))} }
    \cup { NotAnEvent(v) : v \in {PyNone, PyInt(5), PyStr(Str("{}")), PyList} }

Wallets == {PyStr(Str("A")), PyStr(Str("a")), PyStr(<<>>), PyFloat(Str("nan")), PyFloat(Str("1.0")),
            PyInt(0)}
----------------------------------------------------------------------------
(* The demo, example.py, calls TonDecoder.parse_ton_link.  The class in     *)
(* ton_semantic_decoder.py defines the static methods                       *)
(* decode_base64_comment and parse_event only: the lookup of the attribute  *)
(* raises AttributeError before the argument is used, and nothing in        *)
(* example.py catches it.                                                   *)

parse_ton_link_call(uri) ==
    Raise("AttributeError: type object 'TonDecoder' has no attribute 'parse_ton_link'")

\* The link of the demo.
suspicious_link ==
    Str("ton://transfer/EQ_FAKE_ADDRESS...?amount=1000000000&text=h%74tps://scam.site&bin=te6ccgEBAQE...")

\* The arguments of the call: the link of the demo, and links and other
\* values a caller may pass in its place.
FriendlyToken == Str("EQDtFpEwcFAEcRe5mLVh2N6C0x-_hJEM7W61_JLnSF74p4q2")
HexToken == Str("3333333333333333333333333333333333333333333333333333333333abcDEF")

LinkHeads ==
    { Str("ton://transfer/"), Str("TON://Transfer/"), Str("https://app.tonkeeper.com/transfer/"),
      Str("ton://trans%66er/"), Str(" ton://trans fer/"), Str("ton://"), Str("https://example.com/"),
      <<>> }

LinkTokens ==
    { FriendlyToken, Str("0:") \o HexToken, Str("-1:") \o HexToken, Str("2:") \o HexToken,
      SubSeq(FriendlyToken, 1, 47), FriendlyToken \o Str("ab"), Str("???"), <<>>,
      SubSeq(FriendlyToken, 1, 24) \o Str("/") \o SubSeq(FriendlyToken, 25, 48),
      Str("xx$0:") \o HexToken \o Str("$"), FriendlyToken \o Str("/") }

LinkQueries ==
    { <<>>, Str("?"), Str("?amount=1000000000"),
      Str("?amount=1000000000&text=visit%20https://evil.com"),
      Str("?amount=1.5&amount=x"), Str("?amount=7&amount=2.50&text=e") \o <<"U+0301">> \o Str(".g"),
      Str("?bin=abcd"), Str("?init=ff&body=00"), Str("?init=ff&text=a.b.") }

Links ==
    { PyStr(h \o t \o q) : h \in LinkHeads, t \in LinkTokens, q \in LinkQueries }
    \cup {PyStr(suspicious_link), PyNone, PyInt(5)}

----------------------------------------------------------------------------
(* The calls                                                               *)

NoValue == [raised |-> FALSE, exc |-> "", value |-> <<>>]
NoEvent == NotAnEvent(PyNone)

InitDecode ==
    /\ pc = "call" /\ op = "decode_base64_comment"
    /\ b64_str \in DecodeInputs /\ decoded = NoValue
    /\ event_data = NoEvent /\ my_wallet = PyStr(<<>>) /\ result = NoValue
    /\ raw_uri = PyNone /\ link_data = NoValue

CallDecode ==
    /\ pc = "call" /\ op = "decode_base64_comment"
    /\ decoded' = decode_base64_comment(b64_str)
    /\ pc' = "return"
    /\ UNCHANGED <<op, b64_str, event_data, my_wallet, result, raw_uri, link_data>>

NextDecode == CallDecode

SpecDecode == InitDecode /\ [][NextDecode]_vars

InitEvent ==
    /\ pc = "call" /\ op = "parse_event"
    /\ event_data \in Events /\ my_wallet \in Wallets /\ result = NoValue
    /\ b64_str = PyNone /\ decoded = NoValue
    /\ raw_uri = PyNone /\ link_data = NoValue

CallEvent ==
    /\ pc = "call" /\ op = "parse_event"
    /\ result' = parse_event(event_data, my_wallet)
    /\ pc' = "return"
    /\ UNCHANGED <<op, b64_str, decoded, event_data, my_wallet, raw_uri, link_data>>

NextEvent == CallEvent

SpecEvent == InitEvent /\ [][NextEvent]_vars

InitLink ==
    /\ pc = "call" /\ op = "parse_ton_link"
    /\ raw_uri \in Links /\ link_data = NoValue
    /\ b64_str = PyNone /\ decoded = NoValue
    /\ event_data = NoEvent /\ my_wallet = PyStr(<<>>) /\ result = NoValue

CallLink ==
    /\ pc = "call" /\ op = "parse_ton_link"
    /\ link_data' = parse_ton_link_call(raw_uri)
    /\ pc' = "return"
    /\ UNCHANGED <<op, b64_str, decoded, event_data, my_wallet, result, raw_uri>>

NextLink == CallLink

SpecLink == InitLink /\ [][NextLink]_vars

----------------------------------------------------------------------------
(* Properties of decode_base64_comment                                     *)

DecodeReturned == pc = "return" /\ op = "decode_base64_comment"

\* The input is a text within the size cap.
WithinCap == b64_str.k = "str" /\ b64_str.s # <<>> /\ Len(b64_str.s) <= MaxEncodedLen

\* The input is a text within the size cap that base64 decodes.
Decodes == WithinCap /\ ~b64decode(b64_str.s).raised

\* The text the defang step is given.
BeforeDefang == decoded_text(b64decode(b64_str.s).value)

Count(text, c) == Cardinality({i \in 1..Len(text) : text[i] = c})

\* A word character: an ASCII letter or digit, the underscore, a Cyrillic letter.
IsWord(c) ==
    LET o == Ord(c)
    IN  \/ o \in 48..57 \/ o \in 65..90 \/ o \in 97..122 \/ o = 95
        \/ o \in 1024..1279

\* The dot at position i of the text sits between two word characters.
WordDot(text, i) ==
    /\ text[i] = "." /\ 1 < i /\ i < Len(text)
    /\ IsWord(text[i - 1]) /\ IsWord(text[i + 1])

WordDots(text) == {i \in 1..Len(text) : WordDot(text, i)}
OtherDots(text) == {i \in 1..Len(text) : text[i] = "." /\ ~WordDot(text, i)}

NoBareLink(text) == ~Contains(text, Str("http://")) /\ ~Contains(text, Str("https://"))

\* C7 (as the design states it): the decoder never raises and returns the placeholder
\* exactly when the input is longer than 4096.
C7_PlaceholderExactlyOverCap ==
    DecodeReturned =>
        /\ ~decoded.raised
        /\ decoded.value = Placeholder
               <=> (b64_str.k = "str" /\ Len(b64_str.s) > MaxEncodedLen)

\* C7 (as the code has it): the decoder never raises; every input longer than 4096
\* yields the placeholder; an empty input and a text that fails to decode
\* yield the empty string; a text of at most 4096 yields the placeholder
\* only when its own payload decodes to that very text.
C7_PlaceholderOverCap ==
    DecodeReturned =>
        /\ ~decoded.raised
        /\ (b64_str.k = "str" /\ Len(b64_str.s) > MaxEncodedLen) => decoded.value = Placeholder
        /\ ~Truthy(b64_str) => decoded.value = <<>>
        /\ (WithinCap /\ ~Decodes) => decoded.value = <<>>
        /\ (WithinCap /\ decoded.value = Placeholder) => (Decodes /\ BeforeDefang = Placeholder)

\* An input one character over the cap has returned the placeholder.
C7_Witness ==
    /\ DecodeReturned /\ b64_str.k = "str" /\ Len(b64_str.s) = MaxEncodedLen + 1
    /\ decoded.value = Placeholder

\* C9 (as the design states it): the defang step puts a bracket marker before a dot only
\* when the dot sits between two word characters, leaves every other dot
\* untouched, and a second pass over the output does not bring back a bare
\* http:// or https://.
C9_BracketsOnlyWordDots ==
    (DecodeReturned /\ Decodes) =>
        /\ Count(decoded.value, "[") - Count(BeforeDefang, "[") = Cardinality(WordDots(BeforeDefang))
        /\ NoBareLink(defang(decoded.value))

\* C9 (as the code has it): the defang step brackets every dot of the decoded text,
\* whatever is on either side of it: each `.` of the text comes out as `[.]`
\* and nothing else is bracketed; the output holds no bare http:// or
\* https://, and a second pass over it does not bring one back.
C9_BracketsEveryDot ==
    (DecodeReturned /\ Decodes) =>
        LET out == decoded.value
        IN  /\ \A i \in 1..Len(out) :
                   out[i] = "." => /\ 1 < i /\ i < Len(out)
                                   /\ out[i - 1] = "[" /\ out[i + 1] = "]"
            /\ Count(out, ".") = Count(BeforeDefang, ".")
            /\ Len(out) = Len(replace(replace(BeforeDefang, Str("http://"), Str("hxxp://")),
                                      Str("https://"), Str("hxxps://")))
                          + 2 * Count(BeforeDefang, ".")
            /\ NoBareLink(out)
            /\ NoBareLink(defang(out))

\* A text with a dot between two word characters and a dot elsewhere has
\* been defanged.
C9_Witness ==
    /\ DecodeReturned /\ Decodes
    /\ WordDots(BeforeDefang) # {} /\ OtherDots(BeforeDefang) # {}
    /\ Count(decoded.value, "[") = Count(BeforeDefang, ".")

----------------------------------------------------------------------------
(* Properties of parse_event                                               *)

EventReturned == pc = "return" /\ op = "parse_event"

\* The event is a record with a non-empty `actions` list whose first entry
\* is a record.
HasFirst ==
    /\ event_data.self.k = "dict" /\ event_data.actions.k = "list"
    /\ event_data.items # <<>> /\ event_data.items[1].self.k = "dict"

First == event_data.items[1]

\* The first action is a transfer of the given type that carries its payload
\* and a sender address.
TransferOf(name) ==
    /\ HasFirst /\ IsType(First, name)
    /\ First.payload.k = "dict" /\ First.sender.k = "dict" /\ First.address.k = "str"

ResultFields == {"action", "direction", "description", "is_scam_risk", "sender", "amount",
                 "currency"}

EndsWith(text, suffix) ==
    Len(text) >= Len(suffix) /\ SubSeq(text, Len(text) - Len(suffix) + 1, Len(text)) = suffix

\* C1: for every event value and every reference wallet parse_event returns
\* a result with the seven fields and never raises to the caller.
C1_NeverRaises ==
    EventReturned =>
        /\ ~result.raised
        /\ DOMAIN result.value = ResultFields
        /\ result.value.direction \in {"in", "out", "neutral"}
        /\ result.value.is_scam_risk \in BOOLEAN

\* An exception of the try block has been turned into a description.
C1_Witness ==
    /\ EventReturned /\ parse_try(event_data, my_wallet).raised
    /\ ~result.raised /\ SubSeq(result.value.description, 1, 15) = Str("Error parsing: ")

\* C2: the description returned by parse_event holds no bare http:// or
\* https://, whatever the action type and whichever way the comment of a
\* TonTransfer was resolved.
C2_DescriptionDefanged ==
    EventReturned => (~result.raised /\ NoBareLink(result.value.description))

\* C3: direction is "out" exactly when the first action's sender address is
\* the reference wallet; otherwise it is "in" for a TonTransfer or a
\* JettonTransfer, and "neutral" for a ContractDeploy or a SmartContractExec.
C3_Direction ==
    EventReturned =>
        /\ \A name \in {"TonTransfer", "JettonTransfer"} :
               TransferOf(name) =>
                   result.value.direction = IF First.address = my_wallet THEN "out" ELSE "in"
        /\ (HasFirst /\ (IsType(First, "ContractDeploy") \/ IsType(First, "SmartContractExec")))
               => result.value.direction = "neutral"

\* The symbol of the first action holds one of the scam words, whatever the
\* case of its letters.
ScamSymbol ==
    /\ HasFirst /\ IsType(First, "JettonTransfer")
    /\ First.payload.k = "dict" /\ First.jetton.k = "dict" /\ First.symbol.k = "str"
    /\ \E x \in ScamWords : Contains(lower(First.symbol.s), x)

\* C5: a JettonTransfer whose symbol holds a scam word gets is_scam_risk and
\* the warning suffix, whatever its sender, amount and decimals are.
C5_ScamFlag ==
    (EventReturned /\ ScamSymbol) =>
        /\ result.value.is_scam_risk
        /\ EndsWith(result.value.description, ScamSuffix)

\* The decimal count the fallback rule gives: the integer itself inside
\* 0..30, and 9 for an absent, negative, too large or non-numeric one.
ClampedCount(raw) ==
    IF raw.k = "int" /\ 0 <= raw.n /\ raw.n <= MaxDecimals THEN raw.n ELSE DefaultDecimals

\* The decimal count is absent, an integer, an infinity, a NaN, or
\* a value that is no number.
PlainCount(raw) ==
    \/ raw.k \in {"absent", "none", "int", "list"}
    \/ raw.k = "float" /\ raw.s \in {Str("inf"), Str("-inf"), Str("nan")}
    \/ raw.k = "str" /\ \A i \in 1..Len(raw.s) : ~IsDigit(raw.s[i])

WithCount(event, n) ==
    [event EXCEPT !.items = [@ EXCEPT ![1] = [@ EXCEPT !.decimals = PyInt(n)]]]

\* C6: the division uses the integer count given when it lies in 0..30 and
\* 9 otherwise, so the event yields the very result of the same event with
\* that count, and the fallback does not abort the interpretation.
C6_DecimalsClamped ==
    (/\ EventReturned /\ HasFirst /\ IsType(First, "JettonTransfer")
     /\ First.payload.k = "dict" /\ First.jetton.k = "dict" /\ PlainCount(First.decimals))
    => result = parse_event(WithCount(event_data, ClampedCount(First.decimals)), my_wallet)

\* C10: only the first action is examined: the result is that of the event
\* cut down to its first action; an empty or absent `actions`, and a first
\* action of unknown or missing type, give the default result.
C10_FirstActionOnly ==
    EventReturned =>
        /\ (event_data.self.k = "dict" /\ event_data.actions.k = "list" /\ event_data.items # <<>>)
               => result = parse_event(Event(<<event_data.items[1]>>), my_wallet)
        /\ (/\ event_data.self.k = "dict"
            /\ \/ event_data.actions.k = "absent"
               \/ event_data.actions.k = "list" /\ event_data.items = <<>>)
               => result = Return(DefaultResult)
        /\ (/\ HasFirst
            /\ \A name \in {"TonTransfer", "JettonTransfer", "ContractDeploy",
                            "SmartContractExec"} : ~IsType(First, name))
               => result = Return(DefaultResult)

\* A transfer followed by actions of another kind has been interpreted.
C10_Witness ==
    /\ EventReturned /\ HasFirst /\ Len(event_data.items) >= 2
    /\ IsType(First, "TonTransfer")
    /\ \E i \in 2..Len(event_data.items) : IsType(event_data.items[i], "JettonTransfer")
    /\ result.value.currency = PyStr(Str("TON")) /\ ~result.value.is_scam_risk
    /\ result.value.direction = "out"

----------------------------------------------------------------------------
(* Properties of the amount conversion                                     *)

\* The first action is a transfer that reaches the amount conversion with a
\* whole raw amount: its payload, sender and jetton entries are records (or
\* absent) and its decimal count, for a jetton, is an integer or is absent.
AmountCase ==
    /\ EventReturned /\ HasFirst
    /\ First.payload.k = "dict" /\ First.sender.k \in {"dict", "absent"}
    /\ \/ IsType(First, "TonTransfer")
       \/ /\ IsType(First, "JettonTransfer") /\ First.jetton.k = "dict"
          /\ First.decimals.k \in {"int", "absent", "none"}
    /\ First.amount.k \in {"str", "int"}
    /\ PyText(First.amount) # <<>> /\ AllDigits(PyText(First.amount))

\* The raw amount n and the decimal count d of the conversion.
RawNumber == FromDigits(DigitsOf(PyText(First.amount)), Len(PyText(First.amount)))
Scale == IF IsType(First, "TonTransfer") THEN TonDecimals ELSE ClampedCount(First.decimals)

\* x * 10^d and n, both multiplied by the power of two that makes x whole.
Scaled(x, n, d) ==
    IF x.e >= 0 THEN [x |-> MulPow10(ShiftLeft(x.m, x.e), d), n |-> n]
    ELSE [x |-> MulPow10(x.m, d), n |-> ShiftLeft(n, 0 - x.e)]

\* x = n / 10^d
ExactAmount(x, n, d) ==
    /\ x.kind = "finite" /\ ~x.neg
    /\ LET s == Scaled(x, n, d) IN Ready(s) /\ s.x = s.n

\* C4: the returned amount is n / 10^9 for a TonTransfer and n / 10^d for a
\* JettonTransfer exactly, with no loss of precision: it is not a binary
\* floating point value that only approximates the quotient.
C4_AmountExact ==
    AmountCase => ExactAmount(result.value.amount, RawNumber, Scale)
----------------------------------------------------------------------------
(* The call of TonDecoder.parse_ton_link.                                  *)

LinkReturned == pc = "return" /\ op = "parse_ton_link"

\* The link holds no transfer marker, and no escape, space or control
\* character that could hide one.
NoMarker ==
    /\ raw_uri.k = "str"
    /\ \A i \in 1..Len(raw_uri.s) : Ord(raw_uri.s[i]) \in 33..126 /\ raw_uri.s[i] # "%"
    /\ ~Contains(ascii_lower(raw_uri.s), Str("transfer/"))

IsUrlSafe(c) == LET o == Ord(c)
                IN  o \in 48..57 \/ o \in 65..90 \/ o \in 97..122 \/ c = "-" \/ c = "_"

IsHex(c) == LET o == Ord(c) IN o \in 48..57 \/ o \in 65..70 \/ o \in 97..102

\* The address grammar: a 48-character URL-safe base64 token, or the raw
\* form, an optional "-", a workchain id, ":" and 64 hexadecimal characters.
IsFriendly(token) == Len(token) = 48 /\ \A i \in 1..Len(token) : IsUrlSafe(token[i])

IsRawAddress(token) ==
    LET body == IF token # <<>> /\ token[1] = "-" THEN SubSeq(token, 2, Len(token)) ELSE token
    IN  /\ Len(body) = 64 + 2
        /\ body[1] \in {"0", "1"} /\ body[2] = ":"
        /\ \A i \in 3..Len(body) : IsHex(body[i])

IsAddress(token) == IsFriendly(token) \/ IsRawAddress(token)

\* C8: the call returns a result; its destination is set exactly when the
\* link is valid; a valid link has a non-empty destination that matches the
\* address grammar; a link without the transfer marker is not valid and has
\* neither a warning nor a destination.
C8_DestinationIffValid ==
    LinkReturned =>
        /\ ~link_data.raised
        /\ (link_data.value.destination.k # "none") <=> link_data.value.valid
        /\ link_data.value.valid =>
              /\ link_data.value.destination.k = "str"
              /\ link_data.value.destination.s # <<>>
              /\ IsAddress(link_data.value.destination.s)
        /\ NoMarker =>
              /\ ~link_data.value.valid
              /\ link_data.value.warning.k = "none"
              /\ link_data.value.destination.k = "none"

====
